---------------------------- MODULE Spec2Model ----------------------------
(***************************************************************************)
(* A model of lib/aws/ingestor.py of awspx: the IngestionManager (the     *)
(* orchestrator and the account-wide graph), the per-service Ingestors     *)
(* (IAM, EC2, S3, Lambda) with their admission control, the                *)
(* SessionClientWrapper around provider calls, Transitive inference and    *)
(* trust/action resolution.                                                *)
(*                                                                         *)
(* Strings are Python strings.  A graph element is a record                *)
(*   [kind, label, id, name, src, tgt, props]                              *)
(* kind is the category label of a node ("Resource", "Generic",            *)
(* "External", "Node" for a bare Node) or "Edge"; label is element.label();*)
(* id is element.id() of a node (its Arn); name is the Name property;      *)
(* src and tgt are the ids of an edge's source() and target(); props holds *)
(* the other properties the code reads, as a function from property key to *)
(* value (a key outside DOMAIN props is an absent property).               *)
(***************************************************************************)
EXTENDS Naturals, Sequences, FiniteSets, Bags, TLC

VARIABLES
    cfg,      \* the arguments of IngestionManager.__init__
    pc,       \* the position of IngestionManager.__init__
    svc,      \* index in cfg.services of the service being ingested
    step,     \* the position inside the running Ingestor's __init__
    types,    \* Ingestor.types of the running Ingestor
    ws,       \* the running Ingestor (a set of elements), {} when there is none
    live,     \* the set of services whose Ingestor object is in use
    graph,    \* the IngestionManager (a set of elements)
    events,   \* the console messages so far, a bag of [by, lvl, msg, key]
    zip,      \* IngestionManager.zip
    disk,     \* what save has made under the data path
    trace,    \* the phases of the run so far, in order
    faults,   \* the provider calls that failed so far: a set of [call, item, code]
    error,    \* the exception that ended the run, "None" while there is none
    calls,    \* how many add calls were made from outside a handler
    call      \* the last such add call: [to, e]

vars == <<cfg, pc, svc, step, types, ws, live, graph, events, zip, disk,
          trace, faults, error, calls, call>>

---------------------------------------------------------------------------
(* Bounds of the model.                                                    *)

\* The number of add calls a behaviour of SpecAdd makes.
MaxAdds == 3

\* The number of provider calls that fail in one run.
MaxFailures == 1

\* The number of references under one property of a resource.
MaxRefs == 2

---------------------------------------------------------------------------
(* The account that is scanned and the identities met in it.               *)

Account == "111"
Region  == "eu-west-1"

TUser     == "AWS::Iam::User"
TGroup    == "AWS::Iam::Group"
TRole     == "AWS::Iam::Role"
TPolicy   == "AWS::Iam::Policy"
TProfile  == "AWS::Iam::InstanceProfile"
TMfa      == "AWS::Iam::MfaDevice"
TVMfa     == "AWS::Iam::VirtualMfaDevice"
TInstance == "AWS::Ec2::Instance"
TNat      == "AWS::Ec2::NatGateway"
TVpc      == "AWS::Ec2::Vpc"
TSubnet   == "AWS::Ec2::Subnet"
TRouteTable == "AWS::Ec2::RouteTable"
TBucket   == "AWS::S3::Bucket"
TObject   == "AWS::S3::Object"
TFunction == "AWS::Lambda::Function"
TAccount  == "AWS::Account"

U1  == "arn:aws:iam::111:user/u1"
U2  == "arn:aws:iam::111:user/u2"
G1  == "arn:aws:iam::111:group/g1"
G2  == "arn:aws:iam::111:group/g2"
R1  == "arn:aws:iam::111:role/r1"
R2  == "arn:aws:iam::111:role/r2"
P1  == "arn:aws:iam::111:policy/p1"
P2  == "arn:aws:iam::111:policy/p2"
IP1 == "arn:aws:iam::111:instance-profile/ip1"
IP2 == "arn:aws:iam::111:instance-profile/ip2"
M1  == "arn:aws:iam::111:mfa/u1"
I1  == "arn:aws:ec2:eu-west-1:111:instance/i-1"
N1  == "arn:aws:ec2:eu-west-1:111:natgateway/nat-1"
V1  == "arn:aws:ec2:eu-west-1:111:vpc/vpc-1"
SN1 == "arn:aws:ec2:eu-west-1:111:subnet/subnet-1"
SN2 == "arn:aws:ec2:eu-west-1:111:subnet/subnet-2"
RT1 == "arn:aws:ec2:eu-west-1:111:route-table/rtb-1"
B1  == "arn:aws:s3:::b1"
O1  == "arn:aws:s3:::b1/o1"
O2  == "arn:aws:s3:::b1/o2"
BX  == "urn:bucket:bx"
F1  == "arn:aws:lambda:eu-west-1:111:function:f1"
Root      == "arn:aws:iam::111:root"
OtherRoot == "arn:aws:iam::222:root"
XUser     == "arn:aws:iam::222:user/x"
Star      == "*"

\* str.split(':') of the identities a principal can have.
Split(s) ==
    CASE s = Root      -> <<"arn", "aws", "iam", "", "111", "root">>
      [] s = OtherRoot -> <<"arn", "aws", "iam", "", "222", "root">>
      [] s = XUser     -> <<"arn", "aws", "iam", "", "222", "user/x">>
      [] s = U1        -> <<"arn", "aws", "iam", "", "111", "user/u1">>
      [] s = U2        -> <<"arn", "aws", "iam", "", "111", "user/u2">>
      [] s = R1        -> <<"arn", "aws", "iam", "", "111", "role/r1">>
      [] s = R2        -> <<"arn", "aws", "iam", "", "111", "role/r2">>
      [] OTHER         -> <<s>>

\* RESOURCES.label(arn): the type label an identity matches, "None" if none.
ResourcesLabel(arn) ==
    CASE arn \in {U1, U2, XUser} -> TUser
      [] arn \in {G1, G2}        -> TGroup
      [] arn \in {R1, R2}        -> TRole
      [] arn \in {P1, P2}        -> TPolicy
      [] arn \in {IP1, IP2}      -> TProfile
      [] arn = M1                -> TVMfa
      [] arn = I1                -> TInstance
      [] arn = N1                -> TNat
      [] arn = V1                -> TVpc
      [] arn \in {SN1, SN2}      -> TSubnet
      [] arn = RT1               -> TRouteTable
      [] arn = B1                -> TBucket
      [] arn \in {O1, O2}        -> TObject
      [] arn = F1                -> TFunction
      [] OTHER                   -> "None"

\* RESOURCES.definition(k): the Arn template of a type, the id of its Generic.
ResourcesDefinition(k) == "template " \o k

NoProps == <<>>

---------------------------------------------------------------------------
(* Elements (lib.graph).                                                   *)

Resource(label, id, name, props) ==
    [kind |-> "Resource", label |-> label, id |-> id, name |-> name,
     src |-> "", tgt |-> "", props |-> props]

Generic(k) ==
    [kind |-> "Generic", label |-> k, id |-> ResourcesDefinition(k),
     name |-> "$" \o k, src |-> "", tgt |-> "", props |-> NoProps]

External(label, id) ==
    [kind |-> "External", label |-> label, id |-> id, name |-> id,
     src |-> "", tgt |-> "", props |-> NoProps]

CatchAll ==
    [kind |-> "Node", label |-> "CatchAll", id |-> "CatchAll",
     name |-> "CatchAll", src |-> "", tgt |-> "", props |-> NoProps]

Edge(label, name, source, target) ==
    [kind |-> "Edge", label |-> label, id |-> "", name |-> name,
     src |-> source, tgt |-> target, props |-> NoProps]

Transitive(source, target)  == Edge("TRANSITIVE", "Attached", source, target)
Associative(source, target) == Edge("ASSOCIATIVE", "Attached", source, target)
Trusts(name, source, target) == Edge("TRUSTS", name, source, target)
Action(name, source, target) == Edge("ACTION", name, source, target)

\* element.labels()
Labels(e) ==
    IF e.kind \in {"Resource", "Generic", "External"}
    THEN {e.kind, e.label}
    ELSE {e.label}

\* element.type(label)
IsType(e, l) == l \in Labels(e)

\* What decides element equality: the identity and the primary label.  An
\* edge's identity is made of its source, label, properties and target.
Key(e) ==
    IF e.kind = "Edge"
    THEN <<e.label, e.src, e.name, e.tgt>>
    ELSE <<e.label, e.id, "", "">>

Keys(c) == {Key(x) : x \in c}

\* set.add: an element equal to a member is not added.
SetAdd(c, e) == IF Key(e) \in Keys(c) THEN c ELSE c \cup {e}

\* Elements.get(label)
Get(c, l) == {x \in c : IsType(x, l)}

\* A fixed order in which a set is iterated.
RECURSIVE SeqOf(_)
SeqOf(S) ==
    IF S = {} THEN <<>>
    ELSE LET x == CHOOSE y \in S : TRUE IN <<x>> \o SeqOf(S \ {x})

SeqToSet(s) == {s[i] : i \in DOMAIN s}

Ev(by, lvl, msg, key) == [by |-> by, lvl |-> lvl, msg |-> msg, key |-> key]

Say(evs, ev) == evs (+) SetToBag({ev})

---------------------------------------------------------------------------
(* Ingestor: the allowed types and admission control.                      *)

IamTypes    == <<TUser, TRole, TGroup, TPolicy, TProfile, TMfa, TVMfa>>
Ec2Types    == <<TInstance, TNat, TRouteTable, TSubnet, TVpc>>
S3Types     == <<TBucket, TObject>>
LambdaTypes == <<TFunction>>

DeclaredTypes(service) ==
    CASE service = "IAM"    -> IamTypes
      [] service = "EC2"    -> Ec2Types
      [] service = "S3"     -> S3Types
      [] service = "Lambda" -> LambdaTypes

\* IngestionManager.__init__: the only_types handed to every Ingestor.
ManagerOnlyTypes(c) ==
    IF c.only_arns # {}
    THEN c.only_types \cup {ResourcesLabel(arn) : arn \in c.only_arns}
    ELSE c.only_types

\* Ingestor.__init__: the types that match the user's specifications.
MutantAllowedTypes(declared, only_types, skip_types) ==
    SelectSeq(declared, LAMBDA t : only_types = {} \/ t \in only_types)
AllowedTypes(declared, only_types, skip_types) ==
    SelectSeq(declared, LAMBDA t : /\ t \notin skip_types
                                   /\ (only_types = {} \/ t \in only_types))

InTypes(l) == \E i \in DOMAIN types : types[i] = l

\* Ingestor.add, on a pair st = [c |-> the Ingestor, ev |-> the messages].
MutantIngestorAddLoud(st, e) ==
    IF /\ e.kind \in {"Resource", "Generic"}
       /\ ~InTypes(e.label)
    THEN [st EXCEPT !.ev = Say(@, Ev("ingestor", "debug", "Skipping", Key(e)))]
    ELSE IF /\ e.kind = "Resource"
            /\ \/ (cfg.only_arns # {} /\ e.id \notin cfg.only_arns)
               \/ (cfg.skip_arns # {} /\ e.id \in cfg.skip_arns)
    THEN [st EXCEPT !.ev = Say(@, Ev("ingestor", "debug", "Skipping", Key(e)))]
    ELSE IF e.kind \in {"Resource", "Generic"}
              \/ e.label \in {"ASSOCIATIVE", "TRANSITIVE"}
    THEN [c  |-> SetAdd(st.c, e),
          ev |-> Say(st.ev, Ev("ingestor", "info", "Added", Key(e)))]
    ELSE [st EXCEPT !.c = SetAdd(@, e)]
MutantIngestorAddAnyArn(st, e) ==
    IF /\ e.kind \in {"Resource", "Generic"}
       /\ ~InTypes(e.label)
    THEN [st EXCEPT !.ev = Say(@, Ev("ingestor", "debug", "Skipping", Key(e)))]
    ELSE IF SetAdd(st.c, e) = st.c
    THEN st
    ELSE IF e.kind \in {"Resource", "Generic"}
              \/ e.label \in {"ASSOCIATIVE", "TRANSITIVE"}
    THEN [c  |-> SetAdd(st.c, e),
          ev |-> Say(st.ev, Ev("ingestor", "info", "Added", Key(e)))]
    ELSE [st EXCEPT !.c = SetAdd(@, e)]
IngestorAdd(st, e) ==
    IF /\ e.kind \in {"Resource", "Generic"}
       /\ ~InTypes(e.label)
    THEN [st EXCEPT !.ev = Say(@, Ev("ingestor", "debug", "Skipping", Key(e)))]
    ELSE IF /\ e.kind = "Resource"
            /\ \/ (cfg.only_arns # {} /\ e.id \notin cfg.only_arns)
               \/ (cfg.skip_arns # {} /\ e.id \in cfg.skip_arns)
    THEN [st EXCEPT !.ev = Say(@, Ev("ingestor", "debug", "Skipping", Key(e)))]
    ELSE IF SetAdd(st.c, e) = st.c
    THEN st
    ELSE IF e.kind \in {"Resource", "Generic"}
              \/ e.label \in {"ASSOCIATIVE", "TRANSITIVE"}
    THEN [c  |-> SetAdd(st.c, e),
          ev |-> Say(st.ev, Ev("ingestor", "info", "Added", Key(e)))]
    ELSE [st EXCEPT !.c = SetAdd(@, e)]

\* Ingestor.update
RECURSIVE IngestorUpdate(_, _)
IngestorUpdate(st, es) ==
    IF es = <<>> THEN st
    ELSE IngestorUpdate(IngestorAdd(st, Head(es)), Tail(es))

\* IngestionManager.add, on a pair st = [c |-> the manager, ev |-> messages].
ManagerAdd(st, e) ==
    IF SetAdd(st.c, e) = st.c
    THEN st
    ELSE IF e.label \in {"ACTION", "TRUSTS"}
    THEN [st EXCEPT !.c = SetAdd(@, e)]
    ELSE [c  |-> SetAdd(st.c, e),
          ev |-> Say(st.ev, Ev("manager", "info", "Added", Key(e)))]

\* IngestionManager.update
RECURSIVE ManagerUpdate(_, _)
ManagerUpdate(st, es) ==
    IF es = <<>> THEN st
    ELSE ManagerUpdate(ManagerAdd(st, Head(es)), Tail(es))

---------------------------------------------------------------------------
(* Configurations.                                                         *)

Config(services, quick, skip_actions, ot, st, oa, sa) ==
    [services |-> services, quick |-> quick, skip_actions |-> skip_actions,
     only_types |-> ot, skip_types |-> st, only_arns |-> oa, skip_arns |-> sa]

NoCall == [to |-> "none", e |-> CatchAll]

\* The data path before save: no working directory, no table file in it and
\* no archive.
NoDisk == [made |-> FALSE, tables |-> <<>>, archived |-> FALSE,
           removed |-> FALSE]

---------------------------------------------------------------------------
(* SpecAdd: add calls on an IAM Ingestor and on the IngestionManager.      *)

AddConfigs ==
    { Config(<<"IAM">>, TRUE, FALSE, f[1], f[2], a[1], a[2]) :
        f \in { <<{}, {}>>, <<{TUser, TGroup}, {}>>, <<{}, {TGroup}>>,
                <<{TUser, TGroup}, {TGroup}>> },
        a \in { <<{}, {}>>, <<{U1}, {}>>, <<{}, {G1}>> } }

AddUniverse ==
    { Resource(TUser, U1, "u1", NoProps),
      Resource(TUser, U1, "u1", [GroupList |-> <<"g1">>]),
      Resource(TGroup, G1, "g1", NoProps),
      Resource(TBucket, B1, "b1", NoProps),
      Generic(TGroup),
      Generic(TFunction),
      Associative(M1, U1),
      Action("sts:AssumeRole", U1, R1) }

InitAdd ==
    /\ cfg \in AddConfigs
    /\ pc = "adding"
    /\ svc = 1
    /\ step = "add"
    /\ types = AllowedTypes(DeclaredTypes("IAM"), ManagerOnlyTypes(cfg),
                            cfg.skip_types)
    /\ ws = {}
    /\ live = {"IAM"}
    /\ graph = {}
    /\ events = EmptyBag
    /\ zip = "None"
    /\ disk = NoDisk
    /\ trace = <<>>
    /\ faults = {}
    /\ error = "None"
    /\ calls = 0
    /\ call = NoCall

AddToIngestor ==
    /\ pc = "adding"
    /\ calls < MaxAdds
    /\ \E e \in AddUniverse :
         LET st == IngestorAdd([c |-> ws, ev |-> events], e) IN
         /\ ws' = st.c
         /\ events' = st.ev
         /\ call' = [to |-> "ingestor", e |-> e]
    /\ calls' = calls + 1
    /\ UNCHANGED <<cfg, pc, svc, step, types, live, graph, zip, disk, trace, faults,
                   error>>

AddToManager ==
    /\ pc = "adding"
    /\ calls < MaxAdds
    /\ \E e \in AddUniverse :
         LET st == ManagerAdd([c |-> graph, ev |-> events], e) IN
         /\ graph' = st.c
         /\ events' = st.ev
         /\ call' = [to |-> "manager", e |-> e]
    /\ calls' = calls + 1
    /\ UNCHANGED <<cfg, pc, svc, step, types, ws, live, zip, disk, trace, faults,
                   error>>

NextAdd == AddToIngestor \/ AddToManager

SpecAdd == InitAdd /\ [][NextAdd]_vars

\* The 'Added' events reported by a collection for an element.
AddedCount(by, k) == CopiesIn(Ev(by, "info", "Added", k), events)

\* C1: an add of an element equal to a member, through Ingestor.add or
\* IngestionManager.add, leaves the collection unchanged and reports no
\* event, and a collection never reports more than one 'Added' event for
\* one element.
C1_AddIdempotent ==
    /\ [](\A ev \in BagToSet(events) :
            ev.msg = "Added" => CopiesIn(ev, events) = 1)
    /\ [][ /\ (call'.to = "ingestor" /\ Key(call'.e) \in Keys(ws))
              => (ws' = ws /\ events' = events)
           /\ (call'.to = "manager" /\ Key(call'.e) \in Keys(graph))
              => (graph' = graph /\ events' = events) ]_vars

\* A duplicate was added to each collection, after a first add was reported.
C1_Witness ==
    /\ calls = MaxAdds
    /\ Cardinality(ws) = 1
    /\ Cardinality(graph) = 1
    /\ \E x \in ws : AddedCount("ingestor", Key(x)) = 1
    /\ \E x \in graph : AddedCount("manager", Key(x)) = 1 /\ call.e # x
                        /\ Key(call.e) = Key(x)

\* The allowed-type set of claim C3: the declared types minus skip_types,
\* restricted to the Ingestor's only_types when that is not empty.
C3_Allowed(t) ==
    /\ \E i \in DOMAIN IamTypes : IamTypes[i] = t
    /\ t \notin cfg.skip_types
    /\ (ManagerOnlyTypes(cfg) = {} \/ t \in ManagerOnlyTypes(cfg))

C3_Rejects(e) ==
    \/ e.kind \in {"Resource", "Generic"} /\ ~C3_Allowed(e.label)
    \/ /\ e.kind = "Resource"
       /\ \/ (cfg.only_arns # {} /\ e.id \notin cfg.only_arns)
          \/ (cfg.skip_arns # {} /\ e.id \in cfg.skip_arns)

\* C3: Ingestor.add rejects exactly the Resource and Generic elements whose
\* type is not allowed and the Resources the identity lists exclude; a
\* rejection leaves the Ingestor unchanged and logs only debug messages;
\* every other element (every edge included) is a member after the add.
C3_Admission ==
    [][ call'.to = "ingestor" /\ calls' = calls + 1 =>
        IF C3_Rejects(call'.e)
        THEN /\ ws' = ws
             /\ events # events'
             /\ \A ev \in BagToSet(events') :
                  CopiesIn(ev, events') > CopiesIn(ev, events)
                  => ev.lvl = "debug"
        ELSE /\ Key(call'.e) \in Keys(ws')
             /\ \A ev \in BagToSet(events') :
                  CopiesIn(ev, events') > CopiesIn(ev, events)
                  => ev.lvl # "debug" ]_vars

\* The Ingestor holds an admitted Resource, and the last add was a rejection
\* of a Resource by the identity lists.
C3_Witness ==
    /\ call.to = "ingestor"
    /\ call.e.kind = "Resource"
    /\ C3_Allowed(call.e.label)
    /\ C3_Rejects(call.e)
    /\ \E x \in ws : x.kind = "Resource"
    /\ \E x \in ws : x.kind = "Edge"

---------------------------------------------------------------------------
(* SessionClientWrapper and the provider.                                  *)

\* SessionClientWrapper.codes
codes == {"AccessDenied", "AccessDeniedException",
          "IllegalLocationConstraintException", "UnauthorizedOperation"}

\* The ways a provider call ends: "ok", or a ClientError with this code: two
\* of the wrapper's codes, and two that are not among them.
ErrorCodes == {"AccessDenied", "UnauthorizedOperation", "NoSuchEntity",
               "Throttling"}
Outcomes   == {"ok"} \cup ErrorCodes

\* The outcomes of n successive provider calls, given the failures so far.
Plans(n) ==
    {f \in [1..n -> Outcomes] :
        Cardinality({i \in 1..n : f[i] # "ok"}) + Cardinality(faults)
            <= MaxFailures}

\* SessionClientWrapper.__getattr__.hook: "ok" (the method's result),
\* "empty" (the result {} after a warning) or "raise".
WrapperHook(o) ==
    IF o = "ok" THEN "ok" ELSE IF o \in codes THEN "empty" ELSE "raise"

\* SessionClientWrapper.__iter__ at one page: "yield", "stop" (after a
\* warning) or "raise".
MutantWrapperIter(o) == IF o = "ok" THEN "yield" ELSE "stop"
MutantWrapperIterRaises(o) == IF o = "ok" THEN "yield" ELSE "raise"
WrapperIter(o) ==
    IF o = "ok" THEN "yield" ELSE IF o \in codes THEN "stop" ELSE "raise"

\* The state a handler threads through its loop: the collection, the
\* messages, the failed calls and the exception raised ("None" if none).
RunState(c, ev) == [c |-> c, ev |-> ev, faults |-> {}, exc |-> "None"]

\* One provider call ended with outcome o: a failure is recorded, and the
\* wrapper warns when the code is one of its codes.
Called(rs, name, item, o) ==
    IF o = "ok" THEN rs
    ELSE [rs EXCEPT
            !.faults = @ \cup {[call |-> name, item |-> item, code |-> o]},
            !.ev = IF o \in codes
                   THEN Say(@, Ev("wrapper", "warn", o, <<name, item, "", "">>))
                   ELSE @]

Raise(rs, exc) == [rs EXCEPT !.exc = exc]

\* Ingestor.add of each element of a sequence, in order.
RECURSIVE AddEach(_, _)
AddEach(rs, es) ==
    IF es = <<>> THEN rs
    ELSE LET st == IngestorAdd([c |-> rs.c, ev |-> rs.ev], Head(es)) IN
         AddEach([rs EXCEPT !.c = st.c, !.ev = st.ev], Tail(es))

\* A property of a member is set (element.set).
SetProp(c, e, k, v) ==
    (c \ {e}) \cup {[e EXCEPT !.props = [x \in DOMAIN e.props \cup {k} |->
                                           IF x = k THEN v ELSE e.props[x]]]}

RECURSIVE Concat(_)
Concat(ss) == IF ss = <<>> THEN <<>> ELSE Head(ss) \o Concat(Tail(ss))

---------------------------------------------------------------------------
(* What the provider holds.  A permission document is a set of statements: *)
(* [principal, action] in a trust or resource-based document and           *)
(* [action, resource] in an identity-based one.                            *)

Item(label, arn, name, props, profiles) ==
    [label |-> label, arn |-> arn, name |-> name, props |-> props,
     profiles |-> profiles]

IamPages ==
    << << Item("User", U1, "u1",
               [GroupList |-> <<"g1">>,
                AttachedManagedPolicies |-> <<[PolicyArn |-> P1]>>,
                Documents |-> {[action |-> "s3:GetObject", resource |-> B1],
                               [action |-> "kms:Decrypt", resource |-> Star]}],
               <<>>),
          Item("User", U2, "u2", NoProps, <<>>),
          Item("Group", G1, "g1", NoProps, <<>>) >>,
       << Item("Role", R1, "r1",
               [AttachedManagedPolicies |-> <<[PolicyArn |-> P1],
                                              [PolicyArn |-> P2]>>,
                Trusts |-> {[principal |-> Root, action |-> "sts:AssumeRole"],
                            [principal |-> U1, action |-> "sts:AssumeRole"],
                            [principal |-> XUser,
                             action |-> "sts:AssumeRoleWithSAML"],
                            [principal |-> U2, action |-> "sts:AssumeRole"],
                            [principal |-> U2, action |-> "sts:TagSession"]}],
               << Item("InstanceProfile", IP1, "ip1",
                       [Roles |-> <<[Arn |-> R1]>>], <<>>) >>),
          Item("Policy", P1, "p1", NoProps, <<>>) >> >>

\* list_mfa_devices(UserName)["MFADevices"], by SerialNumber
MfaDevices(user) == IF user = "u1" THEN <<M1, "serial-1">> ELSE <<>>

---------------------------------------------------------------------------
(* IAM                                                                     *)

\* get_aad_resources: the instance profiles of the item, then the item.
RECURSIVE GetAadResources(_)
GetAadResources(item) ==
    Concat([i \in DOMAIN item.profiles |-> GetAadResources(item.profiles[i])])
    \o <<Resource("AWS::Iam::" \o item.label, item.arn, item.name,
                  item.props)>>

\* The pages are iterated through SessionClientWrapper.__iter__.
RECURSIVE AadPages(_, _, _)
AadPages(rs, pages, plan) ==
    IF pages = <<>> THEN rs
    ELSE LET o   == Head(plan)
             rs1 == Called(rs, "get_account_authorization_details", "", o)
         IN  CASE WrapperIter(o) = "raise" -> Raise(rs1, o)
               [] WrapperIter(o) = "stop"  -> rs1
               [] OTHER ->
                    AadPages(
                      AddEach(rs1, Concat([i \in DOMAIN Head(pages) |->
                                   GetAadResources(Head(pages)[i])])),
                      Tail(pages), Tail(plan))

Users(c) == SeqOf(Get(Get(c, TUser), "Resource"))

\* The loop of list_user_mfa_devices.  The hook's {} has no "MFADevices".
RECURSIVE MfaLoop(_, _, _)
MfaLoop(rs, users, plan) ==
    IF users = <<>> THEN rs
    ELSE LET o   == Head(plan)
             u   == Head(users)
             rs1 == Called(rs, "list_mfa_devices", u.id, o)
             devices == SelectSeq(MfaDevices(u.name),
                                  LAMBDA d : ResourcesLabel(d) # "None")
         IN  CASE WrapperHook(o) = "raise" -> Raise(rs1, o)
               [] WrapperHook(o) = "empty" -> Raise(rs1, "KeyError")
               [] OTHER ->
                    MfaLoop(
                      AddEach(rs1, [i \in DOMAIN devices |->
                        Resource(ResourcesLabel(devices[i]), devices[i],
                                 IF ResourcesLabel(devices[i]) = TMfa
                                 THEN "device"
                                 ELSE IF ResourcesLabel(devices[i]) = TVMfa
                                 THEN "Virtual Device" ELSE "Device",
                                 NoProps)]),
                      Tail(users), Tail(plan))

\* What a provider call that enriches a resource gives when it succeeds.
Answer(name, id) ==
    CASE name = "get_bucket_policy" ->
           {[principal |-> U1, action |-> "s3:GetObject"],
            [principal |-> Star, action |-> "s3:ListBucket"]}
      [] name \in {"get_bucket_acl", "get_object_acl"} ->
           {[principal |-> XUser, action |-> "s3:GetObject"]}
      [] OTHER -> {}

\* How a handler treats the result of the hook, by provider call: key is
\* the property it sets, empty what it does with the hook's {} ("KeyError":
\* the subscript raises and nothing catches it; "warn": the KeyError is
\* caught; "skip": the key is tested), caught the codes of the ClientErrors
\* it catches and lvl the level it then logs at ("" for none).
Handling(name) ==
    CASE name = "get_login_profile" ->
           [key |-> "LoginProfile", empty |-> "KeyError",
            caught |-> {"NoSuchEntity"}, lvl |-> ""]
      [] name = "list_access_keys" ->
           [key |-> "AccessKeys", empty |-> "KeyError",
            caught |-> {"NoSuchEntity"}, lvl |-> ""]
      [] name = "describe_instance_attribute" ->
           [key |-> "UserData", empty |-> "skip",
            caught |-> ErrorCodes, lvl |-> "error"]
      [] name = "get_bucket_policy" ->
           [key |-> "Policy", empty |-> "warn",
            caught |-> ErrorCodes, lvl |-> "warn"]
      [] name = "get_bucket_acl" ->
           [key |-> "ACL", empty |-> "warn",
            caught |-> ErrorCodes, lvl |-> "warn"]
      [] name = "get_public_access_block" ->
           [key |-> "PublicAccessBlock", empty |-> "warn",
            caught |-> ErrorCodes, lvl |-> "warn"]
      [] name = "get_object_acl" ->
           [key |-> "ACL", empty |-> "warn",
            caught |-> ErrorCodes, lvl |-> "warn"]

\* The loop of a handler that makes one provider call per resource and sets
\* a property from its result: get_login_profile, list_access_keys,
\* get_instance_user_data, get_bucket_policies, get_bucket_acls,
\* get_public_access_blocks, get_object_acls.
RECURSIVE EnrichLoop(_, _, _, _)
EnrichLoop(rs, targets, plan, name) ==
    IF targets = <<>> THEN rs
    ELSE LET o   == Head(plan)
             h   == Handling(name)
             r   == CHOOSE x \in rs.c : Key(x) = Key(Head(targets))
             rs1 == Called(rs, name, r.id, o)
             said == [rs1 EXCEPT !.ev = Say(@, Ev("ingestor", h.lvl, "Failed",
                                                  Key(r)))]
             rest(x) == EnrichLoop(x, Tail(targets), Tail(plan), name)
         IN  CASE WrapperHook(o) = "raise" /\ o \in h.caught ->
                    rest(IF h.lvl = "" THEN rs1 ELSE said)
               [] WrapperHook(o) = "raise" /\ o \notin h.caught ->
                    Raise(rs1, o)
               [] WrapperHook(o) = "empty" /\ h.empty = "KeyError" ->
                    Raise(rs1, "KeyError")
               [] WrapperHook(o) = "empty" /\ h.empty = "warn" -> rest(said)
               [] WrapperHook(o) = "empty" /\ h.empty = "skip" -> rest(rs1)
               [] OTHER ->
                    rest([rs1 EXCEPT
                            !.c = SetProp(@, r, h.key, Answer(name, r.id)),
                            !.ev = Say(@, Ev("ingestor", "info", "Updated",
                                             Key(r)))])

---------------------------------------------------------------------------
(* The resource-type catalog (lib.aws.resources).                          *)

\* The fields of RESOURCES.definition(label), in the template's order.
TemplateFields(label) ==
    CASE label = TBucket     -> <<"Name">>
      [] label = TObject     -> <<"Name", "Key">>
      [] label = TInstance   -> <<"Region", "Account", "InstanceId">>
      [] label = TNat        -> <<"Region", "Account", "NatGatewayId">>
      [] label = TVpc        -> <<"Region", "Account", "VpcId">>
      [] label = TSubnet     -> <<"Region", "Account", "SubnetId">>
      [] label = TRouteTable -> <<"Region", "Account", "RouteTableId">>
      [] label \in {TUser, TVMfa} -> <<"Account", "UserName">>
      [] OTHER               -> <<>>

\* RESOURCES.definition(label).format with the keywords kw, which hold all
\* the fields.
Format(label, kw) ==
    CASE label = TBucket -> "arn:aws:s3:::" \o kw["Name"]
      [] label = TObject -> "arn:aws:s3:::" \o kw["Name"] \o "/" \o kw["Key"]
      [] label = TUser   -> "arn:aws:iam::" \o kw["Account"] \o ":user/"
                            \o kw["UserName"]
      [] label = TVMfa   -> "arn:aws:iam::" \o kw["Account"] \o ":mfa/"
                            \o kw["UserName"]
      [] OTHER ->
           "arn:aws:ec2:" \o kw["Region"] \o ":" \o kw["Account"] \o ":"
           \o (CASE label = TInstance   -> "instance/" \o kw["InstanceId"]
                 [] label = TNat        -> "natgateway/" \o kw["NatGatewayId"]
                 [] label = TVpc        -> "vpc/" \o kw["VpcId"]
                 [] label = TSubnet     -> "subnet/" \o kw["SubnetId"]
                 [] label = TRouteTable -> "route-table/" \o kw["RouteTableId"])

\* re.compile(RESOURCES[label]).match(arn).groupdict(), <<>> without a match.
GroupDict(label, arn) ==
    LET ec2(k, v) == [x \in {"Region", "Account", k} |->
                        IF x = "Region" THEN Region
                        ELSE IF x = "Account" THEN Account ELSE v]
        iam(v) == [x \in {"Account", "UserName"} |->
                     IF x = "Account" THEN Account ELSE v]
    IN  CASE label = TUser /\ arn = U1 -> iam("u1")
          [] label = TUser /\ arn = U2 -> iam("u2")
          [] label = TVMfa /\ arn = M1 -> iam("u1")
          [] label = TInstance /\ arn = I1 -> ec2("InstanceId", "i-1")
          [] label = TNat /\ arn = N1 -> ec2("NatGatewayId", "nat-1")
          [] label = TVpc /\ arn = V1 -> ec2("VpcId", "vpc-1")
          [] label = TSubnet /\ arn = SN1 -> ec2("SubnetId", "subnet-1")
          [] label = TSubnet /\ arn = SN2 -> ec2("SubnetId", "subnet-2")
          [] label = TRouteTable /\ arn = RT1 -> ec2("RouteTableId", "rtb-1")
          [] label = TBucket /\ arn = B1 -> [x \in {"Name"} |-> "b1"]
          [] label = TObject /\ arn = O1 ->
               [x \in {"Name", "Key"} |-> IF x = "Name" THEN "b1" ELSE "o1"]
          [] label = TObject /\ arn = O2 ->
               [x \in {"Name", "Key"} |-> IF x = "Name" THEN "b1" ELSE "o2"]
          [] OTHER -> <<>>

\* The identities in the order of Python's string comparison.
SortedIds ==
    <<I1, N1, RT1, SN1, SN2, V1, G1, G2, IP1, IP2, M1, P1, P2, R1, R2, Root,
      U1, U2, OtherRoot, XUser, F1, B1, O1, O2, BX>>

IdRank(id) == CHOOSE i \in DOMAIN SortedIds : SortedIds[i] = id

---------------------------------------------------------------------------
(* Ingestor.load_resources: the traversal of the collections.              *)

\* A record a collection yields: whether it has meta.identifiers, its
\* meta.data and its identifiers (capitalized), in order.
Cm(conforms, data, ids) == [conforms |-> conforms, data |-> data, ids |-> ids]

TreeNode(attr, label, children) ==
    [attr |-> attr, label |-> label, children |-> children]

\* What get_resource_type_model returns for the service.
ResourceTypeModel(service) ==
    CASE service = "S3" ->
           << TreeNode("buckets", TBucket,
                       << TreeNode("objects", TObject, <<>>) >>) >>
      [] service = "EC2" ->
           << TreeNode("instances", TInstance, <<>>),
              TreeNode("route_tables", TRouteTable, <<>>),
              TreeNode("subnets", TSubnet, <<>>),
              TreeNode("vpcs", TVpc, <<>>) >>
      [] OTHER -> <<>>

\* The pages getattr(parent, attr).all() yields; parent is the Name of the
\* parent record, "" for the service resource.
Collection(attr, parent) ==
    CASE attr = "buckets" ->
           << << Cm(TRUE, [Name |-> "b1", CreationDate |-> "2020"],
                    << <<"Name", "b1">> >>) >> >>
      [] attr = "objects" /\ parent = "b1" ->
           << << Cm(TRUE, [Key |-> "o1", Size |-> "1"],
                    << <<"Bucket_name", "b1">>, <<"Key", "o1">> >>) >>,
              << Cm(TRUE, [Key |-> "o2", Size |-> "2"],
                    << <<"Bucket_name", "b1">>, <<"Key", "o2">> >>) >> >>
      [] attr = "objects" /\ parent = "b2" ->
           << << Cm(TRUE, [Key |-> "o3", Size |-> "3"],
                    << <<"Bucket_name", "b2">>, <<"Key", "o3">> >>) >>,
              << Cm(TRUE, [Key |-> "o4", Size |-> "4"],
                    << <<"Bucket_name", "b2">>, <<"Key", "o4">> >>) >> >>
      [] attr = "objects" /\ parent = "b3" -> << <<>> >>
      [] attr = "instances" ->
           << << Cm(TRUE, [InstanceId |-> "i-1", VpcId |-> "vpc-1",
                           SubnetId |-> "subnet-1",
                           IamInstanceProfile |-> [Arn |-> IP1]],
                    << <<"Id", "i-1">> >>) >> >>
      [] attr = "route_tables" ->
           << << Cm(TRUE, [RouteTableId |-> "rtb-1", VpcId |-> "vpc-1",
                           Associations |->
                             <<[Main |-> "False", SubnetId |-> "subnet-1"]>>],
                    << <<"Id", "rtb-1">> >>) >> >>
      [] attr = "subnets" ->
           << << Cm(TRUE, [SubnetId |-> "subnet-1", VpcId |-> "vpc-1"],
                    << <<"Id", "subnet-1">> >>) >> >>
      [] attr = "vpcs" ->
           << << Cm(TRUE, [VpcId |-> "vpc-1"], << <<"Id", "vpc-1">> >>) >> >>
      [] OTHER -> <<>>

Has(d, k) == k \in DOMAIN d

Without(d, ks) == [x \in DOMAIN d \ ks |-> d[x]]

\* The Arn of a record: "KeyError" when the template names a field that is
\* not given, "TypeError" when a keyword is given twice.
DeriveArn(label, cm, pdata) ==
    LET ids == [k \in {cm.ids[i][1] : i \in DOMAIN cm.ids} |->
                  (CHOOSE p \in SeqToSet(cm.ids) : p[1] = k)[2]]
        given == {"Region", "Account"} \cup DOMAIN cm.data \cup DOMAIN pdata
        kw == [k \in given |->
                 IF k = "Region" THEN Region
                 ELSE IF k = "Account" THEN Account
                 ELSE IF k \in DOMAIN cm.data THEN cm.data[k] ELSE pdata[k]]
    IN  IF Has(cm.data, "Arn") THEN cm.data["Arn"]
        ELSE IF Has(ids, "Arn") THEN ids["Arn"]
        ELSE IF \/ DOMAIN cm.data \cap DOMAIN pdata # {}
                \/ {"Region", "Account"} \cap (DOMAIN cm.data \cup DOMAIN pdata)
                   # {}
        THEN "TypeError"
        ELSE IF \E i \in DOMAIN TemplateFields(label) :
                  TemplateFields(label)[i] \notin given
        THEN "KeyError"
        ELSE Format(label, kw)

\* The Name of a record whose Arn is arn: "None" when there is none.
DeriveName(label, cm, arn) ==
    LET names == SelectSeq(cm.ids, LAMBDA p : p[1] \notin {"Bucket_name"})
        gd    == GroupDict(label, arn)
        caps  == {k \in DOMAIN gd : k = "Name" \/ k \in {"InstanceId",
                   "NatGatewayId", "VpcId", "SubnetId", "RouteTableId"}}
    IN  IF Has(cm.data, "Name") THEN cm.data["Name"]
        ELSE IF names # <<>> THEN names[Len(names)][2]
        ELSE IF gd = <<>> \/ caps = {} THEN "None"
        ELSE gd[CHOOSE k \in caps : TRUE]

\* One record of a collection, were a record without an Arn or a Name to
\* end the batch.
MutantIngest(rs, label, cm, pdata) ==
    LET arn  == DeriveArn(label, cm, pdata)
        name == DeriveName(label, cm, arn)
        e    == Resource(label, arn, name, Without(cm.data, {"Arn", "Name"}))
    IN  IF arn \in {"KeyError", "TypeError"} \/ name = "None" \/ ~cm.conforms
        THEN [rs |-> Raise(rs, "KeyError"), cms |-> <<>>]
        ELSE [rs |-> AddEach(rs, <<e>>), cms |-> <<cm>>]

\* One record of a collection: the state after it, and whether it was
\* admitted (and so is a parent of the child collections).
Ingest(rs, label, cm, pdata) ==
    LET arn  == DeriveArn(label, cm, pdata)
        name == DeriveName(label, cm, arn)
        warn == [rs EXCEPT !.ev = Say(@, Ev("ingestor", "warn", "Skipping",
                                            <<label, "", "", "">>))]
        e    == Resource(label, arn, name, Without(cm.data, {"Arn", "Name"}))
    IN  IF ~cm.conforms THEN [rs |-> warn, cms |-> <<>>]
        ELSE IF Has(cm.data, "Arn") /\ Has(cm.data, "Name")
        THEN [rs |-> AddEach(rs, <<e>>),
              cms |-> IF Key(e) \in Keys(AddEach(rs, <<e>>).c)
                      THEN <<cm>> ELSE <<>>]
        ELSE IF arn = "TypeError" THEN [rs |-> Raise(rs, arn), cms |-> <<>>]
        ELSE IF arn = "KeyError" \/ name = "None"
        THEN [rs |-> warn, cms |-> <<>>]
        ELSE [rs |-> AddEach(rs, <<e>>),
              cms |-> IF Key(e) \in Keys(AddEach(rs, <<e>>).c)
                      THEN <<cm>> ELSE <<>>]

\* The service resource, and the Name of a parent record ("" for it).
ServiceResource == Cm(TRUE, <<>>, <<>>)

ParentName(cm) == IF Has(cm.data, "Name") THEN cm.data["Name"] ELSE ""

\* The pages of one enumeration call, through SessionClientWrapper.__iter__;
\* acc = [rs, cms] gathers the state and the admitted records.
RECURSIVE EnumPages(_, _, _, _, _, _)
EnumPages(acc, node, parent, pages, i, plan) ==
    IF i > Len(pages) THEN acc
    ELSE LET o   == plan[<<node.attr, ParentName(parent), i>>]
             rs1 == Called(acc.rs, node.attr, ParentName(parent), o)
             pdata == parent.data
             RECURSIVE Records(_, _)
             Records(a, cms) ==
                 IF cms = <<>> \/ a.rs.exc # "None" THEN a
                 ELSE LET r == Ingest(a.rs, node.label, Head(cms), pdata) IN
                      Records([rs |-> r.rs, cms |-> a.cms \o r.cms], Tail(cms))
             done == Records([acc EXCEPT !.rs = rs1], pages[i])
         IN  CASE WrapperIter(o) = "raise" ->
                    [acc EXCEPT !.rs = Raise(rs1, o)]
               [] WrapperIter(o) = "stop" -> [acc EXCEPT !.rs = rs1]
               [] done.rs.exc # "None" -> done
               [] OTHER -> EnumPages(done, node, parent, pages, i + 1, plan)

RECURSIVE EnumParents(_, _, _, _)
EnumParents(acc, node, parents, plan) ==
    IF parents = <<>> \/ acc.rs.exc # "None" THEN acc
    ELSE EnumParents(
           EnumPages(acc, node, Head(parents),
                     Collection(node.attr, ParentName(Head(parents))), 1, plan),
           node, Tail(parents), plan)

\* The labels of the nodes of a level of the tree.
LevelLabels(model) == {model[i].label : i \in DOMAIN model}

\* run_ingestor: the test that leaves a branch out.
MutantSkipBranch(node) ==
    /\ types # <<>>
    /\ ~InTypes(node.label)
    /\ \A l \in LevelLabels(node.children) : ~InTypes(l)
SkipBranch(node) == types # <<>> /\ ~InTypes(node.label)

\* run_ingestor: the allowed labels below a branch left out, which the
\* message says "will also be skipped".
Collateral(node, model) ==
    {rt \in LevelLabels(node.children) :
       InTypes(rt) /\ rt \notin LevelLabels(model)}

\* run_ingestor(collections, model)
RECURSIVE RunIngestor(_, _, _, _)
RunIngestor(rs, parents, model, plan) ==
    IF parents = <<>> \/ model = <<>> \/ rs.exc # "None" THEN rs
    ELSE LET node == Head(model) IN
         IF SkipBranch(node)
         THEN RunIngestor(
                [rs EXCEPT !.ev = Say(@, Ev("ingestor", "debug", "Skipped",
                                            <<node.label, "",
                                              IF Collateral(node, model) = {}
                                              THEN "" ELSE "will also be skipped",
                                              "">>))],
                parents, Tail(model), plan)
         ELSE LET r == EnumParents([rs |-> rs, cms |-> <<>>], node, parents,
                                   plan)
              IN  RunIngestor(RunIngestor(r.rs, r.cms, node.children, plan),
                              parents, Tail(model), plan)

\* The enumeration calls the traversal of a service can make.
RECURSIVE SitesOf(_, _)
SitesOf(model, parents) ==
    UNION { {<<model[n].attr, p, i>> :
               i \in 1..Len(Collection(model[n].attr, p))}
            \cup SitesOf(model[n].children,
                         {ParentName(cm) :
                            cm \in UNION {SeqToSet(Collection(model[n].attr, p)[i]) :
                              i \in 1..Len(Collection(model[n].attr, p))}})
          : n \in DOMAIN model, p \in parents }

SitePlans(sites) ==
    {f \in [sites -> Outcomes] :
        Cardinality({x \in sites : f[x] # "ok"}) + Cardinality(faults)
            <= MaxFailures}

---------------------------------------------------------------------------
(* Ingestor.load_associatives                                              *)

Associations(service) ==
    CASE service = "IAM" -> {<<TUser, TVMfa>>}
      [] service = "EC2" -> {<<TSubnet, TRouteTable>>, <<TVpc, TRouteTable>>,
                             <<TVpc, TSubnet>>}
      [] service = "S3"  -> {<<TBucket, TObject>>}
      [] OTHER           -> {}

\* A value of the property tree, as set_references tells them apart: a
\* scalar (str, int or bool, held as its str), a list, a mapping, or anything
\* else.  A list holds its items under no key and a mapping under theirs.
Scalar(v)     == [t |-> "scalar", of |-> <<>>, v |-> v]
Other         == [t |-> "other", of |-> <<>>, v |-> ""]
ListOf(items) == [t |-> "list", v |-> "",
                  of |-> [i \in DOMAIN items |-> <<"", items[i]>>]]
DictOf(pairs) == [t |-> "dict", of |-> pairs, v |-> ""]

\* The property keys whose value is a scalar, a mapping of scalars, a list of
\* mappings of scalars, or a tree given as such; the others hold permission
\* documents, lists of scalars or nothing.
ScalarKeys == {"VpcId", "SubnetId", "InstanceId", "RouteTableId",
               "NatGatewayId", "Key", "Size", "CreationDate", "Role"}
DictKeys   == {"IamInstanceProfile"}
ListKeys   == {"AttachedManagedPolicies", "Roles", "Associations"}
TreeKeys   == {"Attributes"}

\* A mapping of scalars as a tree.
Flat(d) ==
    DictOf([i \in DOMAIN SeqOf(DOMAIN d) |->
              <<SeqOf(DOMAIN d)[i], Scalar(d[SeqOf(DOMAIN d)[i]])>>])

\* resource.properties() as a tree.
PropertyTree(e) ==
    LET p == e.props
        keys == SeqOf(DOMAIN p)
        tree(k) == CASE k \in ScalarKeys -> Scalar(p[k])
                     [] k \in DictKeys   -> Flat(p[k])
                     [] k \in ListKeys   ->
                          ListOf([i \in DOMAIN p[k] |-> Flat(p[k][i])])
                     [] k \in TreeKeys   -> p[k]
                     [] OTHER            -> Other
    IN  DictOf(<< <<"Name", Scalar(e.name)>>, <<"Arn", Scalar(e.id)>> >>
               \o [i \in DOMAIN keys |-> <<keys[i], tree(keys[i])>>])

\* set_references(references, item, key): the (key, value) pairs it records.
\* The items of a list are visited with no key.
RECURSIVE Leaves(_, _)
Leaves(item, key) ==
    CASE item.t = "list" ->
           UNION {Leaves(item.of[i][2], "None") : i \in DOMAIN item.of}
      [] item.t = "dict" ->
           UNION {Leaves(item.of[i][2], item.of[i][1]) : i \in DOMAIN item.of}
      [] item.t = "scalar" /\ key # "None" /\ item.v # "" -> {<<key, item.v>>}
      [] OTHER -> {}

\* set_references on the properties of a resource: the values by key.
SetReferences(e) ==
    LET pairs == Leaves(PropertyTree(e), "None")
    IN  [k \in {x[1] : x \in pairs} |-> {x[2] : x \in {y \in pairs : y[1] = k}}]

\* refs[0] for resource e and associated type rt: the values of each capture,
\* <<>> when there isn't enough to make an ARN.
MutantCaptures(e, rt) ==
    LET gd       == GroupDict(e.label, e.id)
        required == SeqToSet(TemplateFields(rt))
        prop_refs == SetReferences(e)
        refs == [k \in (DOMAIN prop_refs \cup DOMAIN gd) \cap required |->
                   (IF k \in DOMAIN gd THEN {gd[k]} ELSE {})
                   \cup (IF k \in DOMAIN prop_refs THEN prop_refs[k] ELSE {})]
    IN  IF required \subseteq DOMAIN refs THEN refs ELSE <<>>
Captures(e, rt) ==
    LET gd       == GroupDict(e.label, e.id)
        arn_refs == [k \in DOMAIN gd |-> {gd[k]}]
        required == SeqToSet(TemplateFields(rt))
        prop_refs == SetReferences(e)
        refs == IF required \subseteq DOMAIN arn_refs
                THEN arn_refs
                ELSE [k \in (DOMAIN prop_refs \cup DOMAIN arn_refs)
                             \cap required |->
                        IF k \in DOMAIN arn_refs THEN arn_refs[k]
                        ELSE prop_refs[k]]
    IN  IF required \subseteq DOMAIN refs THEN refs ELSE <<>>

\* The captures with more than one value.
MutantAmbiguous(refs) == {}
Ambiguous(refs) == {k \in DOMAIN refs : Cardinality(refs[k]) > 1}

\* combinations(pool, len(ambiguous)) over the pool of single (key, value)
\* choices, of which those that hold every ambiguous key are kept.
Combinations(refs) ==
    LET pool == UNION {{<<k, v>> : v \in refs[k]} : k \in Ambiguous(refs)}
        n    == Cardinality(Ambiguous(refs))
    IN  {c \in SUBSET pool :
           /\ Cardinality(c) = n
           /\ Cardinality({x[1] : x \in c}) = n}

\* The keywords of one combination c: the other captures keep their value.
Keywords(refs, c) ==
    [k \in DOMAIN refs |->
       IF k \in Ambiguous(refs) THEN (CHOOSE x \in c : x[1] = k)[2]
       ELSE CHOOSE v \in refs[k] : TRUE]

\* The reference ARNs tried for e and rt, each with the number of times it
\* is tried.
Attempts(e, rt) ==
    LET refs == Captures(e, rt)
        arns == [c \in Combinations(refs) |-> Format(rt, Keywords(refs, c))]
    IN  IF refs = <<>> THEN {}
        ELSE {[rt |-> rt, arn |-> a,
               n |-> Cardinality({c \in DOMAIN arns : arns[c] = a})] :
                a \in {arns[c] : c \in DOMAIN arns}}

\* The candidate identities of type rt synthesized from resource e.
Candidates(e, rt) == {a.arn : a \in Attempts(e, rt)}

\* sorted((resource, associate), key=lambda r: r.id())
MutantSortedPair(a, b) == <<a, b>>
SortedPair(a, b) == IF IdRank(a) <= IdRank(b) THEN <<a, b>> ELSE <<b, a>>

\* The types associated with a type by the declared pairs of a service.
AssociatedTypes(service, label) ==
    {IF pr[1] = label THEN pr[2] ELSE pr[1] :
       pr \in {q \in Associations(service) : label \in {q[1], q[2]}}}

\* The Associative edges load_associatives adds for resource e.
AssociativesOf(c, service, e) ==
    {Associative(SortedPair(e.id, arn)[1], SortedPair(e.id, arn)[2]) :
       arn \in {a \in UNION {Candidates(e, IF pr[1] = e.label THEN pr[2]
                                            ELSE pr[1]) :
                               pr \in {q \in Associations(service) :
                                         e.label \in {q[1], q[2]}}} :
                  \E x \in c : x.kind # "Edge" /\ x.id = a}}

LoadAssociatives(rs, service) ==
    AddEach(rs, Concat([i \in DOMAIN SeqOf(Get(rs.c, "Resource")) |->
                  SeqOf(AssociativesOf(rs.c, service,
                                       SeqOf(Get(rs.c, "Resource"))[i]))]))

\* EC2.load_associatives: the Associations between a RouteTable that is not
\* the main one and its Vpc are removed.
Redundant(c) ==
    {a \in c :
       /\ a.label = "ASSOCIATIVE"
       /\ \E x \in c, y \in c :
            /\ x.kind # "Edge" /\ x.id = a.src /\ IsType(x, TRouteTable)
            /\ y.kind # "Edge" /\ y.id = a.tgt /\ IsType(y, TVpc)
            /\ Has(x.props, "Associations")
            /\ \E i \in DOMAIN x.props["Associations"] :
                 /\ Has(x.props["Associations"][i], "Main")
                 /\ x.props["Associations"][i]["Main"] = "False"}

---------------------------------------------------------------------------
(* IngestionManager.load_transitives                                       *)

\* str(element) of a node
Str(e) == e.id

\* What load_transitives does with one mapping whose property holds a list:
\* refs are the references, targets the entities the filter lets through,
\* left the references that remain, as the code computes them.
ListMapping(r, key, refs, targets, left) ==
    [edges |-> {Transitive(r.id, t.id) : t \in targets},
     drop  |-> IF ~(Len(left) > 0) THEN {key} ELSE {}]

\* (User|Group|Role) --> (Policy)
PolicyMapping(r, policies) ==
    LET arns == [i \in DOMAIN r.props["AttachedManagedPolicies"] |->
                   r.props["AttachedManagedPolicies"][i]["PolicyArn"]]
        hit  == {x \in policies : x.id \in SeqToSet(arns)}
    IN  ListMapping(r, "AttachedManagedPolicies", arns, hit,
                    SelectSeq(arns, LAMBDA a : \A x \in hit : a # Str(x)))

\* (User) --> (Group): a group is found by its Name, and the names that are
\* left are those that differ from str(group) of every group found.
GroupMapping(r, groups) ==
    LET names == r.props["GroupList"]
        hit   == {x \in groups : x.name \in SeqToSet(names)}
    IN  ListMapping(r, "GroupList", names, hit,
                    SelectSeq(names, LAMBDA g : \A x \in hit : g # Str(x)))

\* (InstanceProfile) --> (Role)
MutantRoleMapping(r, roles) ==
    LET arns == [i \in DOMAIN r.props["Roles"] |-> r.props["Roles"][i]["Arn"]]
        hit  == {x \in roles : x.id \in SeqToSet(arns)}
    IN  ListMapping(r, "Roles", arns, roles,
                    SelectSeq(arns, LAMBDA a : \A x \in hit : a # Str(x)))
RoleMapping(r, roles) ==
    LET arns == [i \in DOMAIN r.props["Roles"] |-> r.props["Roles"][i]["Arn"]]
        hit  == {x \in roles : x.id \in SeqToSet(arns)}
    IN  ListMapping(r, "Roles", arns, hit,
                    SelectSeq(arns, LAMBDA a : \A x \in hit : a # Str(x)))

\* (Instance) --> (Instance Profile) and (Function) --> (Role): one
\* reference, ref, and the entities whose str() equals it.
SingleMapping(r, key, ref, targets) ==
    LET hit == {x \in targets : Str(x) = ref} IN
    [edges |-> IF hit = {} THEN {}
               ELSE {Transitive(r.id, (CHOOSE x \in hit : TRUE).id)},
     drop  |-> IF hit = {} THEN {} ELSE {key}]

\* The mappings load_transitives applies to resource r of collection c.
MappingsOf(c, r) ==
    LET resources == Get(c, "Resource")
        on(cond, m) == IF cond THEN {m} ELSE {}
    IN  on(/\ r.label \in {TUser, TGroup, TRole}
           /\ Has(r.props, "AttachedManagedPolicies"),
           PolicyMapping(r, Get(resources, TPolicy)))
        \cup on(/\ r.label = TUser /\ Has(r.props, "GroupList"),
                GroupMapping(r, Get(resources, TGroup)))
        \cup on(/\ r.label = TInstance /\ Has(r.props, "IamInstanceProfile"),
                SingleMapping(r, "IamInstanceProfile",
                              r.props["IamInstanceProfile"]["Arn"],
                              Get(resources, TProfile)))
        \cup on(/\ r.label = TProfile /\ Has(r.props, "Roles"),
                RoleMapping(r, Get(resources, TRole)))
        \cup on(/\ r.label = TFunction /\ Has(r.props, "Role"),
                SingleMapping(r, "Role", r.props["Role"],
                              Get(resources, TRole)))

\* load_transitives on st = [c, ev]: every resource loses the properties
\* that resolved, and the edges are added through IngestionManager.add.
LoadTransitives(st) ==
    LET resources == Get(st.c, "Resource")
        stripped(r) ==
            [r EXCEPT !.props =
               Without(r.props, UNION {m.drop : m \in MappingsOf(st.c, r)})]
        edges == UNION {UNION {m.edges : m \in MappingsOf(st.c, r)} :
                          r \in resources}
    IN  ManagerUpdate([c  |-> (st.c \ resources)
                              \cup {stripped(r) : r \in resources},
                       ev |-> st.ev],
                      SeqOf(edges))

---------------------------------------------------------------------------
(* The permission-document evaluators (lib.aws.policy): from a resource    *)
(* and the known resources, the principals and the (principal, action,     *)
(* target) triples of its documents.                                       *)

\* The node a principal named in a document resolves to: the known resource
\* of that identity, or a node that stands for an identity outside them.
PrincipalNode(p, resources) ==
    IF \E x \in resources : x.id = p
    THEN CHOOSE x \in resources : x.id = p
    ELSE IF Len(Split(p)) >= 6 /\ Split(p)[6] = "root"
    THEN External(TAccount, p)
    ELSE IF ResourcesLabel(p) # "None"
    THEN External(ResourcesLabel(p), p)
    ELSE External("AWS::Domain", p)

\* ResourceBasedPolicy(resource, resources, keys=key): its statements, each
\* with the node of its principal.
Statements(r, resources, key) ==
    IF ~Has(r.props, key) THEN {}
    ELSE {[node |-> PrincipalNode(s.principal, resources), name |-> s.action] :
            s \in r.props[key]}

\* .principals(): the principals that are not among the known resources
MutantPrincipals(r, resources, key) == {}
Principals(r, resources, key) ==
    {s.node : s \in {t \in Statements(r, resources, key) :
                       t.node \notin resources}}

\* .actions()
ResourceActions(r, resources, key) ==
    {[edge |-> Action(s.name, s.node.id, r.id), source |-> s.node] :
       s \in Statements(r, resources, key)}

\* IdentityBasedPolicy(resource, resources).actions(): the target is the
\* known resource the statement names, or the CatchAll node.
IdentityActions(r, resources) ==
    IF ~Has(r.props, "Documents") THEN {}
    ELSE {Action(s.action, r.id,
                 IF \E x \in resources : x.id = s.resource
                 THEN s.resource ELSE CatchAll.id) :
            s \in r.props["Documents"]}

---------------------------------------------------------------------------
(* IngestionManager.load_actions                                           *)

\* str(action).startswith("sts:AssumeRole")
StartsWithAssumeRole(name) ==
    name \in {"sts:AssumeRole", "sts:AssumeRoleWithSAML",
              "sts:AssumeRoleWithWebIdentity"}

\* "This role trusts all IAM entities within this account"
TrustsAll(source) ==
    /\ IsType(source, TAccount)
    /\ Len(Split(source.id)) >= 5
    /\ Split(source.id)[5] = Account

\* What the trust document of a role adds for one of its actions.
MutantTrustEdges(a, entities) ==
    IF TrustsAll(a.source)
    THEN {Trusts(a.edge.name, a.edge.tgt, e.id) : e \in entities}
    ELSE {a.edge, Trusts(a.edge.name, a.edge.src, a.edge.tgt)}
TrustEdges(a, entities) ==
    IF TrustsAll(a.source)
    THEN {Trusts(a.edge.name, a.edge.tgt, e.id) : e \in entities}
    ELSE {a.edge, Trusts(a.edge.name, a.edge.tgt, a.edge.src)}

\* What load_actions adds for one resource, in the order of the code.
ActionsOf(r, resources, entities) ==
    (IF r.label \in {TUser, TGroup, TRole, TPolicy}
     THEN SeqOf(IdentityActions(r, resources)) ELSE <<>>)
    \o (IF r.label \in {TBucket, TObject}
        THEN SeqOf(Principals(r, resources, "Policy"))
             \o SeqOf({a.edge : a \in ResourceActions(r, resources, "Policy")})
        ELSE <<>>)
    \o (IF r.label = TRole
        THEN SeqOf(Principals(r, resources, "Trusts"))
             \o SeqOf(UNION {TrustEdges(a, entities) :
                   a \in {b \in ResourceActions(r, resources, "Trusts") :
                            StartsWithAssumeRole(b.edge.name)}})
        ELSE <<>>)
    \o (IF r.label \in {TBucket, TObject}
        THEN SeqOf(Principals(r, resources, "ACL"))
             \o SeqOf({a.edge : a \in ResourceActions(r, resources, "ACL")})
        ELSE <<>>)

\* "IAM entities"
MutantEntities(c) == {e \in Get(c, "Resource") : e.label \in {TUser}}
Entities(c) == {e \in Get(c, "Resource") : e.label \in {TUser, TRole}}

LoadActions(st) ==
    LET st1       == ManagerAdd(st, CatchAll)
        resources == {e \in st1.c : Labels(e) \cap {"Resource", "Generic",
                                                    "CatchAll"} # {}}
        entities  == Entities(st1.c)
        todo      == SeqOf(Get(st1.c, "Resource"))
    IN  ManagerUpdate(st1, Concat([i \in DOMAIN todo |->
                                     ActionsOf(todo[i], resources, entities)]))

---------------------------------------------------------------------------
(* IngestionManager.save                                                   *)

\* The labels in the order of Python's string comparison.
SortedLabels ==
    <<"ACTION", "ASSOCIATIVE", TAccount, "AWS::Domain", TInstance, TNat,
      TRouteTable, TSubnet, TVpc, TGroup, TProfile, TMfa, TPolicy, TRole,
      TUser, TVMfa, TFunction, TBucket, TObject, "CatchAll", "Node",
      "TRANSITIVE", "TRUSTS">>

\* The label an element is filed under.
SaveLabel(e) ==
    IF Labels(e) \ {"External", "Generic", "Resource"} # {}
    THEN e.label ELSE "Node"

\* The labels save iterates: those under which some element is filed.
SaveLabels(c) ==
    SelectSeq(SortedLabels, LAMBDA l : \E e \in c : SaveLabel(e) = l)

\* e.properties().keys()
PropertyKeys(e) ==
    DOMAIN e.props
    \cup (CASE e.kind = "Edge" -> {"Name"}
            [] e.kind = "Node" -> {"Name", "Description"}
            [] OTHER           -> {"Name", "Arn"})

\* e.get(f).__class__.__name__
ClassName(e, f) ==
    CASE f \in {"Name", "Arn", "Description"} \cup ScalarKeys -> "str"
      [] f \in ListKeys \cup {"GroupList", "AccessKeys"} -> "list"
      [] f \in TreeKeys ->
           (CASE e.props[f].t = "scalar" -> "str"
              [] e.props[f].t = "other"  -> "NoneType"
              [] OTHER                   -> e.props[f].t)
      [] OTHER -> "dict"

\* The columns of the properties of a group: a key met with more than one
\* class is given the class str.
MutantHeader(elements) ==
    UNION {{<<f, ClassName(e, f)>> : f \in PropertyKeys(e)} : e \in elements}
Header(elements) ==
    LET header == UNION {{<<f, ClassName(e, f)>> : f \in PropertyKeys(e)} :
                           e \in elements}
    IN  {<<h[1], IF Cardinality({g \in header : g[1] = h[1]}) > 1
                 THEN "str" ELSE h[2]>> : h \in header}

\* The type a column is given in the header row.
ColumnType(t) ==
    IF t \in {"NoneType", "dict", "list", "int", "datetime", "bool", "str"}
    THEN "string" ELSE t

\* stringify(e.get(f), t): the text of a scalar, and for a list or a mapping
\* its JSON text, or its str when the column is not of its class.
Stringify(e, f, t) ==
    CASE f = "Name" -> e.name
      [] f = "Arn"  -> e.id
      [] f = "Description" -> "A sinkhole"
      [] f \in ScalarKeys -> e.props[f]
      [] f \in TreeKeys /\ e.props[f].t = "scalar" -> e.props[f].v
      [] t \in {"list", "dict"} -> "json " \o f
      [] OTHER -> "str " \o f

\* The row of a member under the columns: a node's identity, its cells and
\* its labels; an edge's source, its cells, its target and the label.
Row(e, columns, label) ==
    LET cells == [i \in DOMAIN columns |->
                    IF columns[i][1] \in PropertyKeys(e)
                    THEN Stringify(e, columns[i][1], columns[i][2]) ELSE ""]
    IN  IF e.kind = "Edge"
        THEN <<e.src>> \o cells \o <<e.tgt, label>>
        ELSE <<e.id>> \o cells
             \o <<IF e.kind = "Node" THEN e.label ELSE e.label \o ";" \o e.kind>>

\* The members of a group that are given a row.
MutantRowed(elements) == {e \in elements : e.kind # "Generic"}
Rowed(elements) == {e \in elements : e.kind = "Edge" => e.tgt # "None"}

\* The table file of a label: its header row and its data rows.
Table(c, label) ==
    LET elements == Get(c, label)
        columns  == SeqOf(Header(elements))
        first    == CHOOSE e \in elements : TRUE
        prefix   == IF first.kind = "Edge" THEN <<":START_ID">> ELSE <<":ID">>
        suffix   == IF first.kind = "Edge" THEN <<":END_ID", ":TYPE">>
                    ELSE <<":LABEL">>
        rows     == {Row(e, columns, label) : e \in Rowed(elements)}
    IN  [name   |-> label \o ".csv",
         nodes  |-> first.kind # "Edge",
         header |-> prefix \o [i \in DOMAIN columns |->
                                 columns[i][1] \o ":" \o ColumnType(columns[i][2])]
                    \o suffix,
         data   |-> [r \in rows |->
                      Cardinality({e \in Rowed(elements) :
                                     Row(e, columns, label) = r})]]

\* What save leaves under the data path: the working directory is made; a
\* table file is written for each label that has elements; the archive is
\* made, and the directory removed, after the file of the last label.
SaveDisk(c) ==
    LET labels  == SaveLabels(c)
        written == {l \in SeqToSet(labels) : Get(c, l) # {}}
        last    == labels # <<>> /\ labels[Len(labels)] \in written
    IN  [made     |-> TRUE,
         tables   |-> [l \in written |-> Table(c, l)],
         archived |-> last,
         removed  |-> last]

\* The archive that save returns: it is made in the iteration of the last
\* label, which is reached when that label has elements.
Save(c) ==
    LET labels == SelectSeq(SortedLabels,
                            LAMBDA l : \E e \in c : SaveLabel(e) = l)
    IN  IF labels = <<>> THEN "None"
        ELSE IF Get(c, labels[Len(labels)]) = {} THEN "None"
        ELSE "archive"

---------------------------------------------------------------------------
(* The paginated listings of EC2 and Lambda.                               *)

NatGatewayPages ==
    << << [NatGatewayId |-> "nat-1", VpcId |-> "vpc-1",
           SubnetId |-> "subnet-1"] >> >>

FunctionPages ==
    << << [FunctionName |-> "f1", FunctionArn |-> F1, Role |-> R1] >> >>

\* The list comprehension over the pages, through
\* SessionClientWrapper.__iter__: acc = [rs, items].
RECURSIVE Paginate(_, _, _, _)
Paginate(acc, name, pages, plan) ==
    IF pages = <<>> THEN acc
    ELSE LET o   == Head(plan)
             rs1 == Called(acc.rs, name, "", o)
         IN  CASE WrapperIter(o) = "raise" -> [acc EXCEPT !.rs = Raise(rs1, o)]
               [] WrapperIter(o) = "stop"  -> [acc EXCEPT !.rs = rs1]
               [] OTHER ->
                    Paginate([rs |-> rs1, items |-> acc.items \o Head(pages)],
                             name, Tail(pages), Tail(plan))

\* EC2.get_nat_gateways
GetNatGateways(rs, plan) ==
    LET got == Paginate([rs |-> rs, items |-> <<>>], "describe_nat_gateways",
                        NatGatewayPages, plan)
    IN  IF got.rs.exc # "None" THEN got.rs
        ELSE AddEach(got.rs, [i \in DOMAIN got.items |->
               Resource(TNat,
                        Format(TNat, [k \in {"Region", "Account"}
                                             \cup DOMAIN got.items[i] |->
                                        IF k = "Region" THEN Region
                                        ELSE IF k = "Account" THEN Account
                                        ELSE got.items[i][k]]),
                        got.items[i]["NatGatewayId"],
                        Without(got.items[i], {"NatGatewayId"}))])

\* Lambda.list_functions
ListFunctions(rs, plan) ==
    LET got == Paginate([rs |-> rs, items |-> <<>>], "list_functions",
                        FunctionPages, plan)
    IN  IF got.rs.exc # "None" THEN got.rs
        ELSE AddEach(got.rs, [i \in DOMAIN got.items |->
               Resource(TFunction, got.items[i]["FunctionArn"],
                        got.items[i]["FunctionName"],
                        Without(got.items[i],
                                {"FunctionName", "FunctionArn"}))])

\* Ingestor.load_generics
MutantLoadGenerics(rs) == rs
LoadGenerics(rs) == AddEach(rs, [i \in DOMAIN types |-> Generic(types[i])])

---------------------------------------------------------------------------
(* The run: IngestionManager.__init__.                                     *)

\* The services given, in order, and the filters of the runs explored.
Configs ==
    {Config(sv, q, sa, f[1], f[2], f[3], f[4]) :
       sv \in {<<"IAM", "EC2", "S3", "Lambda">>, <<"S3", "IAM">>},
       q  \in BOOLEAN, sa \in BOOLEAN,
       f  \in {<<{}, {}, {}, {}>>,
               <<{}, {TGroup, TObject}, {}, {U2}>>,
               <<{}, {}, {U1, R1, B1}, {}>>}}
    \cup {Config(<<"S3">>, TRUE, TRUE, {}, st, {}, {}) :
            st \in {{TBucket}, {TBucket, TObject}}}

\* The handlers that the __init__ of a service's Ingestor runs, in order.
Steps(service, quick) ==
    CASE service = "IAM" ->
           <<"generics", "aad", "associatives">>
           \o (IF quick THEN <<>> ELSE <<"mfa", "login", "keys">>)
      [] service = "EC2" ->
           <<"generics", "nat", "resources", "associatives">>
           \o (IF quick THEN <<>> ELSE <<"userdata">>)
      [] service = "S3" ->
           <<"generics", "resources", "associatives">>
           \o (IF quick THEN <<>>
               ELSE <<"policies", "acls", "pab", "object_acls">>)
      [] service = "Lambda" -> <<"generics", "functions">>

Service == cfg.services[svc]

\* The handler that runs next in the Ingestor under construction.
At(name) ==
    /\ pc = "ingest"
    /\ Steps(Service, cfg.quick)[step] = name

Here == RunState(ws, events)

\* Where a run goes when a handler raises: nothing between the handler and
\* the caller of IngestionManager catches, so neither the merge of this
\* service nor any later statement of __init__ runs.
MutantPropagate == "merge"
Propagate == "aborted"

\* A handler of the Ingestor under construction ended in run state rs: an
\* exception it raised ends the run; after the last handler the Ingestor is
\* bound to `elements`, and the one bound before is released.
Handled(rs) ==
    /\ ws' = rs.c
    /\ events' = rs.ev
    /\ faults' = faults \cup rs.faults
    /\ IF rs.exc # "None"
       THEN /\ pc' = Propagate
            /\ error' = rs.exc
            /\ UNCHANGED <<step, live>>
       ELSE IF step = Len(Steps(Service, cfg.quick))
       THEN /\ pc' = "merge"
            /\ live' = {Service}
            /\ UNCHANGED <<step, error>>
       ELSE /\ step' = step + 1
            /\ UNCHANGED <<pc, live, error>>
    /\ UNCHANGED <<cfg, svc, types, graph, zip, disk, calls, call>>

Phase(name) == trace' = Append(trace, name)

Init ==
    /\ cfg \in Configs
    /\ pc = "start"
    /\ svc = 1
    /\ step = 1
    /\ types = <<>>
    /\ ws = {}
    /\ live = {}
    /\ graph = {}
    /\ events = EmptyBag
    /\ zip = "None"
    /\ disk = NoDisk
    /\ trace = <<>>
    /\ faults = {}
    /\ error = "None"
    /\ calls = 0
    /\ call = NoCall

\* sts:GetCallerIdentity; a ClientError ends the process with status 1.
GetCallerIdentity ==
    /\ pc = "start"
    /\ \E o \in Outcomes :
         /\ faults' = IF o = "ok" THEN faults
                      ELSE faults \cup {[call |-> "get_caller_identity",
                                         item |-> "", code |-> o]}
         /\ pc' = IF o = "ok" THEN "services" ELSE "exit"
         /\ error' = IF o = "ok" THEN error ELSE "SystemExit"
         /\ events' = IF o = "ok" THEN events
                      ELSE Say(events, Ev("manager", "error", o,
                                          <<"get_caller_identity", "", "", "">>))
    /\ UNCHANGED <<cfg, svc, step, types, ws, live, graph, zip, disk, trace, calls,
                   call>>

\* The loop over the services is over.
MutantLoopOver == svc > 1
LoopOver == svc > Len(cfg.services)

\* The loop over the services: the next Ingestor is constructed, up to the
\* types it allows.
IngestorInit ==
    /\ pc = "services"
    /\ ~LoopOver
    /\ pc' = "ingest"
    /\ step' = 1
    /\ types' = AllowedTypes(DeclaredTypes(Service), ManagerOnlyTypes(cfg),
                             cfg.skip_types)
    /\ ws' = {}
    /\ live' = live \cup {Service}
    /\ Phase("ingest:" \o Service)
    /\ UNCHANGED <<cfg, svc, graph, events, zip, disk, faults, error, calls, call>>

DoLoadGenerics ==
    /\ At("generics")
    /\ Handled(LoadGenerics(Here))
    /\ UNCHANGED trace

\* IAM.get_account_authorization_details
GetAccountAuthorizationDetails ==
    /\ At("aad")
    /\ IF \A t \in {TUser, TGroup, TRole, TPolicy, TProfile} : ~InTypes(t)
       THEN Handled(Here)
       ELSE \E plan \in Plans(Len(IamPages)) :
              Handled(AadPages(Here, IamPages, plan))
    /\ UNCHANGED trace

\* Ingestor.load_associatives, and what EC2.load_associatives does after it
DoLoadAssociatives ==
    /\ At("associatives")
    /\ LET rs == LoadAssociatives(Here, Service) IN
       Handled(IF Service = "EC2"
               THEN [rs EXCEPT !.c = @ \ Redundant(@)]
               ELSE rs)
    /\ Phase("associatives:" \o Service)

\* IAM.list_user_mfa_devices
ListUserMfaDevices ==
    /\ At("mfa")
    /\ IF ~InTypes(TMfa) /\ ~InTypes(TVMfa)
       THEN Handled(Here)
       ELSE \E plan \in Plans(Len(Users(ws))) :
              Handled(MfaLoop(Here, Users(ws), plan))
    /\ UNCHANGED trace

\* A handler that enriches each of the targets by the provider call name.
Enrich(at, name, targets) ==
    /\ At(at)
    /\ \E plan \in Plans(Len(targets)) :
         Handled(EnrichLoop(Here, targets, plan, name))
    /\ UNCHANGED trace

Of(label) == SeqOf(Get(Get(ws, label), "Resource"))

\* IAM.get_login_profile
GetLoginProfile == Enrich("login", "get_login_profile", Of(TUser))

\* IAM.list_access_keys
ListAccessKeys == Enrich("keys", "list_access_keys", Of(TUser))

\* EC2.get_nat_gateways
DoGetNatGateways ==
    /\ At("nat")
    /\ IF ~InTypes(TNat)
       THEN Handled(Here)
       ELSE \E plan \in Plans(Len(NatGatewayPages)) :
              Handled(GetNatGateways(Here, plan))
    /\ UNCHANGED trace

\* Ingestor.load_resources
LoadResources ==
    /\ At("resources")
    /\ \E plan \in SitePlans(SitesOf(ResourceTypeModel(Service), {""})) :
         Handled(RunIngestor(Here, <<ServiceResource>>,
                             ResourceTypeModel(Service), plan))
    /\ UNCHANGED trace

\* EC2.get_instance_user_data
GetInstanceUserData ==
    Enrich("userdata", "describe_instance_attribute", Of(TInstance))

\* S3.get_bucket_policies
GetBucketPolicies == Enrich("policies", "get_bucket_policy", Of(TBucket))

\* S3.get_bucket_acls
GetBucketAcls == Enrich("acls", "get_bucket_acl", Of(TBucket))

\* S3.get_public_access_blocks
GetPublicAccessBlocks == Enrich("pab", "get_public_access_block", Of(TBucket))

\* S3.get_object_acls
GetObjectAcls == Enrich("object_acls", "get_object_acl", Of(TObject))

\* Lambda.list_functions
DoListFunctions ==
    /\ At("functions")
    /\ IF ~InTypes(TFunction)
       THEN Handled(Here)
       ELSE \E plan \in Plans(Len(FunctionPages)) :
              Handled(ListFunctions(Here, plan))
    /\ UNCHANGED trace

\* super().update(elements): set.update of the manager, which makes no
\* message.
Merge ==
    /\ pc = "merge"
    /\ graph' = {e \in ws : Key(e) \notin Keys(graph)} \cup graph
    /\ pc' = "destroy"
    /\ Phase("merge:" \o Service)
    /\ UNCHANGED <<cfg, svc, step, types, ws, live, events, zip, disk, faults, error,
                   calls, call>>

\* elements.destroy(): the counts are reported; `del self` unbinds a local
\* name of destroy, and `elements` goes on naming the Ingestor.
Destroy ==
    /\ pc = "destroy"
    /\ events' = Say(events, Ev("ingestor", "notice", "Added",
                                <<Service, "", "", "">>))
    /\ ws' = {}
    /\ svc' = svc + 1
    /\ pc' = "services"
    /\ Phase("discard:" \o Service)
    /\ UNCHANGED <<cfg, step, types, live, graph, zip, disk, faults, error, calls,
                   call>>

AllIngested ==
    /\ pc = "services"
    /\ LoopOver
    /\ pc' = "transitives"
    /\ UNCHANGED <<cfg, svc, step, types, ws, live, graph, events, zip, disk, trace,
                   faults, error, calls, call>>

\* `if not skip_actions: self.load_actions()`
MutantAfterTransitives(c) == "actions"
MutantNeverActions(c) == "save"
AfterTransitives(c) == IF c.skip_actions THEN "save" ELSE "actions"

DoLoadTransitives ==
    /\ pc = "transitives"
    /\ LET st == LoadTransitives([c |-> graph, ev |-> events]) IN
         /\ graph' = st.c
         /\ events' = st.ev
    /\ pc' = AfterTransitives(cfg)
    /\ Phase("transitives")
    /\ UNCHANGED <<cfg, svc, step, types, ws, live, zip, disk, faults, error, calls,
                   call>>

DoLoadActions ==
    /\ pc = "actions"
    /\ LET st == LoadActions([c |-> graph, ev |-> events]) IN
         /\ graph' = st.c
         /\ events' = st.ev
    /\ pc' = "save"
    /\ Phase("actions")
    /\ UNCHANGED <<cfg, svc, step, types, ws, live, zip, disk, faults, error, calls,
                   call>>

\* self.zip = self.save(db), and the return of __init__
DoSave ==
    /\ pc = "save"
    /\ zip' = Save(graph)
    /\ disk' = SaveDisk(graph)
    /\ pc' = "done"
    /\ live' = {}
    /\ Phase("save")
    /\ UNCHANGED <<cfg, svc, step, types, ws, graph, events, faults, error,
                   calls, call>>

Next ==
    \/ GetCallerIdentity
    \/ IngestorInit
    \/ DoLoadGenerics
    \/ GetAccountAuthorizationDetails
    \/ DoLoadAssociatives
    \/ ListUserMfaDevices
    \/ GetLoginProfile
    \/ ListAccessKeys
    \/ DoGetNatGateways
    \/ LoadResources
    \/ GetInstanceUserData
    \/ GetBucketPolicies
    \/ GetBucketAcls
    \/ GetPublicAccessBlocks
    \/ GetObjectAcls
    \/ DoListFunctions
    \/ Merge
    \/ Destroy
    \/ AllIngested
    \/ DoLoadTransitives
    \/ DoLoadActions
    \/ DoSave

Spec == Init /\ [][Next]_vars

---------------------------------------------------------------------------
(* Properties of the run.                                                  *)

\* A Resource that the scope filters of the run exclude.
Excluded(n) ==
    /\ n.kind = "Resource"
    /\ \/ n.label \in cfg.skip_types
       \/ ManagerOnlyTypes(cfg) # {} /\ n.label \notin ManagerOnlyTypes(cfg)
       \/ cfg.only_arns # {} /\ n.id \notin cfg.only_arns
       \/ cfg.skip_arns # {} /\ n.id \in cfg.skip_arns

\* The nodes an edge joins.
Ends(g, e) == {n \in g : n.kind # "Edge" /\ n.id \in {e.src, e.tgt}}

RECURSIVE ServicePhases(_)
ServicePhases(sv) ==
    IF sv = <<>> THEN <<>>
    ELSE <<"ingest:" \o Head(sv), "merge:" \o Head(sv),
           "discard:" \o Head(sv)>> \o ServicePhases(Tail(sv))

Expected(c) ==
    ServicePhases(c.services) \o <<"transitives">>
    \o (IF c.skip_actions THEN <<>> ELSE <<"actions">>) \o <<"save">>

IsAssociatives(x) == \E s \in SeqToSet(cfg.services) : x = "associatives:" \o s

\* The phases so far, without the handlers inside a service's ingestion.
Phases == SelectSeq(trace, LAMBDA x : ~IsAssociatives(x))

IsPrefix(a, b) == Len(a) <= Len(b) /\ \A i \in DOMAIN a : a[i] = b[i]

Merged(s, i) == \E j \in 1..(i - 1) : trace[j] = "merge:" \o s

C9_PhaseOrder ==
    /\ [](/\ IsPrefix(Phases, Expected(cfg))
          /\ pc = "done" => Phases = Expected(cfg))
    /\ [][(pc \in {"save", "done"}) => (graph' = graph)]_vars

C9_Witness ==
    /\ pc = "done"
    /\ Len(cfg.services) = 4
    /\ ~cfg.skip_actions
    /\ zip = "archive"

\* C10, as stated: a run in which the only provider calls that fail do so
\* with a code of authorization denial is not aborted.
C10_DenialNeverAborts ==
    (/\ faults # {}
     /\ \A f \in faults : f.code \in codes)
    => pc # "aborted"

\* The provider calls whose handler has an except clause of its own.
EnrichCalls ==
    {"get_login_profile", "list_access_keys", "describe_instance_attribute",
     "get_bucket_policy", "get_bucket_acl", "get_public_access_block",
     "get_object_acl"}

\* The failure f is caught by the handler that made the call.
Catches(f) == f.call \in EnrichCalls /\ f.code \in Handling(f.call).caught

\* C11, as stated: a provider call that fails with a code other than one of
\* authorization denial aborts the run.
C11_AnyOtherFailureIsFatal ==
    \A f \in faults : f.code \notin codes => pc \in {"aborted", "exit"}

\* C11, amended: a provider call that fails with a code other than one of
\* authorization denial aborts the run, with that error and without export,
\* unless the handler that made the call catches it (NoSuchEntity in
\* get_login_profile and list_access_keys; any ClientError in
\* get_instance_user_data, get_bucket_policies, get_bucket_acls,
\* get_public_access_blocks and get_object_acls): then the handler goes on
\* with its next item.  Nothing runs after an abort.
C11_UncaughtFailureIsFatal ==
    /\ [](\A f \in faults :
            f.code \notin codes =>
              IF Catches(f)
              THEN faults = {f} => pc # "aborted"
              ELSE /\ pc \in {"aborted", "exit"}
                   /\ error = IF pc = "exit" THEN "SystemExit" ELSE f.code
                   /\ zip = "None"
                   /\ "save" \notin SeqToSet(trace))
    /\ [][(pc \in {"aborted", "exit"}) => UNCHANGED vars]_vars

\* A listing of the third service failed with a code that is not a denial
\* and the run was aborted with what two services had merged.
C11_Witness ==
    /\ pc = "aborted"
    /\ error = "Throttling"
    /\ \E f \in faults : f.call = "objects" /\ f.code = "Throttling"
    /\ graph # {}
    /\ zip = "None"

\* The merges made so far, in order.
Merges == SelectSeq(trace, LAMBDA x : \E s \in SeqToSet(cfg.services) :
                                       x = "merge:" \o s)

\* C12: when an error is raised while service k is ingested, export is never
\* invoked (zip stays unset) and the account-wide graph is what the merges of
\* services 1..k-1 made it: these merges and no other took place, the
\* ingestion of service k and its abort leave the graph as it is, and a merge
\* removes nothing.
C12_AbortKeepsMerged ==
    /\ [](error \notin {"None", "SystemExit"} =>
            /\ pc = "aborted"
            /\ zip = "None"
            /\ "save" \notin SeqToSet(trace)
            /\ Merges = [j \in 1..(svc - 1) |-> "merge:" \o cfg.services[j]]
            /\ svc = 1 => graph = {})
    /\ [][/\ (pc \in {"ingest", "aborted"}) => (graph' = graph /\ zip' = zip)
          /\ (pc = "merge") => (graph \subseteq graph')]_vars

\* The ingestion of the second service was aborted with part of its working
\* set collected: the graph holds what the first service merged.
C12_Witness ==
    /\ pc = "aborted"
    /\ svc = 2
    /\ graph # {}
    /\ \E e \in ws : Key(e) \notin Keys(graph)
    /\ zip = "None"

\* The Associative edges of a collection.
Attachments(c) == {e \in c : e.label = "ASSOCIATIVE"}

\* The Associative edge between a RouteTable and a Vpc that
\* EC2.load_associatives removes.
Pruned(r, s) ==
    \E a \in {Associative(r.id, s.id), Associative(s.id, r.id)} :
       a \in Redundant({r, s, a})

\* C15, as stated: when export is over, for every declared association pair
\* (A, B) of every ingested service and all resources R of type A and S of
\* type B of the account-wide graph such that the identity of S is one that
\* load_associatives synthesizes from R, an Associative edge joins R and S
\* (unless it joins a RouteTable and a Vpc and is pruned).
C15_AssociationsComplete ==
    pc = "done" =>
      \A sv \in SeqToSet(cfg.services) : \A pr \in Associations(sv) :
        \A r \in Get(graph, "Resource"), s \in Get(graph, "Resource") :
          (/\ r.label = pr[1] /\ s.label = pr[2]
           /\ s.id \in Candidates(r, pr[2])
           /\ ~Pruned(r, s))
          => \E e \in Attachments(graph) : {e.src, e.tgt} = {r.id, s.id}

\* C18, as stated: a save that has returned has packaged the working
\* directory into an archive, has deleted the directory, and has returned
\* the path of the archive, whatever the graph holds.
C18_SaveAlwaysArchives ==
    pc = "done" =>
      /\ disk.made
      /\ disk.archived
      /\ disk.removed
      /\ zip # "None"

\* What the resolution of permissions adds to a collection.
Permissions(c) ==
    {e \in c : \/ IsType(e, "CatchAll")
               \/ (e.kind = "Edge" /\ e.label \in {"ACTION", "TRUSTS"})}

\* C24: in a run with skip_actions no collection ever holds a CatchAll node
\* or an Action or Trusts edge, load_actions is not run, and load_transitives
\* and save are; a run without skip_actions that ends has run load_actions
\* between them and its graph holds exactly one CatchAll node.
C24_SkipActions ==
    /\ cfg.skip_actions =>
         /\ Permissions(graph \cup ws) = {}
         /\ pc # "actions"
         /\ "actions" \notin SeqToSet(trace)
         /\ pc = "done" => {"transitives", "save"} \subseteq SeqToSet(trace)
         /\ pc = "done" => disk.made
    /\ (~cfg.skip_actions /\ pc \in {"save", "done"}) =>
         /\ Cardinality({e \in graph : IsType(e, "CatchAll")}) = 1
         /\ {"transitives", "actions"} \subseteq SeqToSet(trace)

\* A run with skip_actions ended: the graph holds a role with its trust
\* document and a Transitive edge that load_transitives made, it was saved,
\* and it holds nothing of the resolution of permissions.
C24_Witness ==
    /\ pc = "done"
    /\ cfg.skip_actions
    /\ \E r \in Get(graph, "Resource") : r.label = TRole /\ Has(r.props, "Trusts")
    /\ \E e \in graph : e.kind = "Edge" /\ e.label = "TRANSITIVE"
    /\ zip = "archive"
    /\ Permissions(graph) = {}

\* C25, as stated: at no point of the run is the Ingestor of more than one
\* service in use: while a service is enumerated its Ingestor is the only
\* one, that of the service before having been released after its merge.
C25_OneWorkingSetLive ==
    /\ Cardinality(live) <= 1
    /\ pc = "ingest" => live = {Service}
    /\ pc \in {"services", "transitives", "actions", "save", "done"} => live = {}

\* The identities of the nodes of a collection.
NodeIds(c) == {n.id : n \in {x \in c : x.kind # "Edge"}}

MergedServices ==
    {cfg.services[i] : i \in {j \in DOMAIN cfg.services :
                                 j < svc \/ (j = svc /\ pc = "destroy")}}

Allowed(service) ==
    SeqToSet(AllowedTypes(DeclaredTypes(service), ManagerOnlyTypes(cfg),
                          cfg.skip_types))

\* C28, as stated: after a service has been ingested, the graph holds the
\* Generic node of a type that its Ingestor allows exactly when it holds no
\* Resource node of that type.
C28_GenericOnlyWithoutResources ==
    \A sv \in MergedServices : \A t \in Allowed(sv) :
       (Generic(t) \in graph) <=> (Get(Get(graph, t), "Resource") = {})

\* C28: after a service has been ingested, the graph holds the Generic node
\* of every type that its Ingestor allows, whether it holds Resource nodes
\* of that type or none, and holds neither a Generic nor a Resource node of
\* a type of the service that its Ingestor does not allow.
C28_GenericOfEveryAllowedType ==
    \A sv \in MergedServices :
       /\ \A t \in Allowed(sv) : Generic(t) \in graph
       /\ \A t \in SeqToSet(DeclaredTypes(sv)) \ Allowed(sv) :
            Get(graph, t) = {}

\* IAM has been merged with users: the graph holds the Generic of the users
\* beside them, and the Generic of the MFA devices, of which none was
\* ingested.
C28_Witness ==
    /\ "IAM" \in MergedServices
    /\ Generic(TUser) \in graph
    /\ Get(Get(graph, TUser), "Resource") # {}
    /\ Generic(TMfa) \in graph
    /\ Get(Get(graph, TMfa), "Resource") = {}

\* The branches of the tree of the service under ingestion, and the labels
\* of a branch.
Branches == SeqToSet(ResourceTypeModel(Service))

BranchLabels(node) == {node.label} \cup LevelLabels(node.children)

\* The message that a branch was left out.
Skipped(node) ==
    \E ev \in BagToSet(events) :
       ev.by = "ingestor" /\ ev.msg = "Skipped" /\ ev.key[1] = node.label

\* A record of the branch was handed to add, or a call of the branch failed.
Traversed(node) ==
    \/ \E ev \in BagToSet(events) :
          /\ ev.by = "ingestor"
          /\ ev.msg \in {"Added", "Skipping"}
          /\ ev.key[1] \in BranchLabels(node)
          /\ \A l \in BranchLabels(node) : ev.key # Key(Generic(l))
    \/ \E f \in faults :
          f.call \in {node.attr} \cup {node.children[i].attr :
                                        i \in DOMAIN node.children}

\* load_resources of the service under ingestion is over.
Collected ==
    /\ pc \in {"ingest", "merge"}
    /\ Service \in {"S3", "EC2"}
    /\ (pc = "ingest" =>
          \E i \in 1..(step - 1) : Steps(Service, cfg.quick)[i] = "resources")

\* C20, as stated: a branch of the traversal tree is left out only when the
\* type filter excludes its label and allows none of the labels below it.
C20_SkippedOnlyWithoutAllowedDescendant ==
    Collected =>
      \A node \in Branches :
        Skipped(node) =>
          /\ ~InTypes(node.label)
          /\ \A l \in LevelLabels(node.children) : ~InTypes(l)

\* C20: once the resources of a service are collected, a branch of the
\* traversal tree was left out exactly when the filter allows some type of
\* the service and not the label of the branch, whether or not it allows a
\* label below it; of a branch left out no record was handed to add and no
\* call was made, so the collection holds no resource of the branch, an
\* allowed label below it included.
C20_SkippedWhenLabelExcluded ==
    Collected =>
      \A node \in Branches :
        /\ Skipped(node) <=> (types # <<>> /\ ~InTypes(node.label))
        /\ Skipped(node) =>
             /\ ~Traversed(node)
             /\ \A l \in BranchLabels(node) : Get(Get(ws, l), "Resource") = {}

\* The buckets were left out although objects are allowed: the Generic of
\* the objects is all that the collection holds.
C20_Witness ==
    /\ Collected
    /\ Service = "S3"
    /\ InTypes(TObject)
    /\ ~InTypes(TBucket)
    /\ \E node \in Branches : node.label = TBucket /\ Skipped(node)
    /\ ws = {Generic(TObject)}

---------------------------------------------------------------------------
(* Ingestor.load_associatives on the working sets a service can have       *)
(* collected, its resources iterated in any order.                         *)

Tags(keys) ==
    ListOf([i \in DOMAIN keys |->
              DictOf(<< <<"Key", Scalar(keys[i])>>,
                        <<"Value", Scalar("x")>> >>)])

\* The forms in which a resource is collected ("none": it is not).
AssociativeForms(id) ==
    CASE id = U1 -> {Resource(TUser, U1, "u1", NoProps)}
      [] id = U2 -> {Resource(TUser, U2, "u2", NoProps)}
      [] id = M1 -> {Resource(TVMfa, M1, "Virtual Device", NoProps)}
      [] id = V1 ->
           {Resource(TVpc, V1, "vpc-1", NoProps),
            Resource(TVpc, V1, "vpc-1",
                     [Attributes |-> DictOf(<< <<"SubnetId",
                        ListOf(<<Scalar("subnet-1")>>)>> >>)]),
            Resource(TVpc, V1, "vpc-1",
                     [Attributes |-> DictOf(<< <<"Peer",
                        DictOf(<< <<"SubnetId", Scalar("subnet-2")>> >>)>> >>)])}
      [] id = SN1 -> {Resource(TSubnet, SN1, "subnet-1", [VpcId |-> "vpc-1"])}
      [] id = SN2 -> {Resource(TSubnet, SN2, "subnet-2", [VpcId |-> "vpc-1"])}
      [] id = RT1 ->
           {Resource(TRouteTable, RT1, "rtb-1",
                     [VpcId |-> "vpc-1",
                      Associations |->
                        <<[Main |-> "False", SubnetId |-> "subnet-1"],
                          [Main |-> "False", SubnetId |-> "subnet-2"]>>]),
            Resource(TRouteTable, RT1, "rtb-1",
                     [VpcId |-> "vpc-1",
                      Associations |-> <<[Main |-> "True", SubnetId |-> ""]>>])}
      [] id = B1 ->
           {Resource(TBucket, B1, "b1", [CreationDate |-> "2020"]),
            Resource(TBucket, B1, "b1",
                     [Attributes |-> DictOf(<<
                        <<"Owner", DictOf(<< <<"Name", Scalar("alice")>> >>)>>,
                        <<"Tags", Tags(<<"o1", "o2">>)>> >>)])}
      [] id = BX ->
           {Resource(TBucket, BX, "bx",
                     [Attributes |-> DictOf(<<
                        <<"Origin", DictOf(<< <<"Name", Scalar("b1")>> >>)>>,
                        <<"Tags", Tags(<<"o1", "o2">>)>> >>)])}
      [] id = O1 -> {Resource(TObject, O1, "o1", [Key |-> "o1", Size |-> "1"])}
      [] id = O2 -> {Resource(TObject, O2, "o2", [Key |-> "o2", Size |-> "2"])}

AssociativeIds(service) ==
    CASE service = "IAM" -> {U1, U2, M1}
      [] service = "EC2" -> {V1, SN1, SN2, RT1}
      [] service = "S3"  -> {B1, BX, O1, O2}

\* The working sets of a service: each resource in one form, or not at all.
WorkingSets(service) ==
    {{f[id] : id \in {x \in AssociativeIds(service) : f[x] # CatchAll}} :
       f \in {g \in [AssociativeIds(service) ->
                       {CatchAll} \cup UNION {AssociativeForms(id) :
                                                id \in AssociativeIds(service)}] :
                 \A id \in AssociativeIds(service) :
                    g[id] = CatchAll \/ g[id] \in AssociativeForms(id)}}
    \ {{}}

InitAssociatives ==
    \E service \in {"IAM", "EC2", "S3"} :
      \E collected \in WorkingSets(service) :
        /\ cfg = Config(<<service>>, TRUE, FALSE, {}, {}, {}, {})
        /\ pc = "associatives"
        /\ svc = 1
        /\ step = Len(Steps(service, TRUE))
        /\ types = DeclaredTypes(service)
        /\ ws = collected \cup {Generic(t) : t \in SeqToSet(DeclaredTypes(service))}
        /\ live = {service}
        /\ graph = {}
        /\ events = SetToBag({Ev("ingestor", "info", "Added", Key(e)) : e \in ws})
        /\ zip = "None"
        /\ disk = NoDisk
        /\ trace = <<>>
        /\ faults = {}
        /\ error = "None"
        /\ calls = 0
        /\ call = NoCall

\* The resources load_associatives has yet to iterate.
Pending == {r \in Get(ws, "Resource") : r.id \notin SeqToSet(trace)}

\* One iteration of the loop of load_associatives, over any of the resources
\* left; after the last, EC2.load_associatives removes the redundant edges.
Associate ==
    /\ pc = "associatives"
    /\ \E r \in Pending :
         LET st == AddEach(Here, SeqOf(AssociativesOf(ws, Service, r)))
             last == Pending = {r}
         IN  /\ ws' = IF last /\ Service = "EC2"
                       THEN st.c \ Redundant(st.c) ELSE st.c
             /\ events' = st.ev
             /\ trace' = Append(trace, r.id)
             /\ call' = [to |-> "associatives", e |-> r,
                         tried |-> UNION {Attempts(r, rt) :
                                     rt \in AssociatedTypes(Service, r.label)}]
             /\ calls' = calls + 1
             /\ pc' = IF last THEN "done" ELSE pc
    /\ UNCHANGED <<cfg, svc, step, types, live, graph, zip, disk, faults, error>>

NextAssociatives == Associate

SpecAssociatives == InitAssociatives /\ [][NextAssociatives]_vars

\* What load_associatives makes of a collection when it iterates the
\* resources in the fixed order of SeqOf.
InFixedOrder(c, service) ==
    LET made == LoadAssociatives(RunState(c, EmptyBag), service).c
    IN  IF service = "EC2" THEN made \ Redundant(made) ELSE made

\* C13: every Associative edge has as source the end with the smaller
\* identity string, no two Associative edges join the same unordered pair,
\* and when load_associatives is over the collection is the same whatever
\* the order in which the resources were iterated.
C13_AssociativeSymmetry ==
    /\ \A e \in Attachments(ws) : IdRank(e.src) < IdRank(e.tgt)
    /\ \A a \in Attachments(ws), b \in Attachments(ws) :
         {a.src, a.tgt} = {b.src, b.tgt} => a = b
    /\ pc = "done" =>
         ws = InFixedOrder(ws \ Attachments(ws), Service)

\* A user and its virtual MFA device, each of which synthesizes the identity
\* of the other, were iterated, the device first: one edge joins them.
C13_Witness ==
    /\ pc = "done"
    /\ Len(trace) >= 2 /\ trace[1] = M1 /\ U1 \in SeqToSet(trace)
    /\ \E u \in ws, m \in ws :
         /\ u.id = U1 /\ m.id = M1
         /\ M1 \in Candidates(u, TVMfa)
         /\ U1 \in Candidates(m, TUser)
    /\ Attachments(ws) = {Associative(M1, U1)}

\* The product of the numbers of values of the captures.
RECURSIVE Product(_, _)
Product(refs, keys) ==
    IF keys = {} THEN 1
    ELSE LET k == CHOOSE x \in keys : TRUE IN
         Cardinality(refs[k]) * Product(refs, keys \ {k})

\* One choice of a value for every capture.
Choices(refs) ==
    {g \in [DOMAIN refs -> UNION {refs[k] : k \in DOMAIN refs}] :
       \A k \in DOMAIN refs : g[k] \in refs[k]}

\* The attempts of the last iteration for the associated type rt.
Tried(rt) ==
    IF call.to = "associatives" THEN {a \in call.tried : a.rt = rt} ELSE {}

\* C14: in an iteration of load_associatives, for each associated type whose
\* captures all have a value, the reference ARNs tried are those of the
\* Cartesian product of the ambiguous captures with the others held at their
\* value, each tried once, c1*...*cn in all; and for each of them at most
\* one Associative edge joins the resource and the node of that identity,
\* none when there is no such node.
C14_AmbiguityCompleteness ==
    call.to = "associatives" =>
      \A rt \in AssociatedTypes(Service, call.e.label) :
        LET refs == Captures(call.e, rt) IN
        refs # <<>> =>
          /\ Cardinality(Tried(rt)) = Product(refs, Ambiguous(refs))
          /\ \A a \in Tried(rt) : a.n = 1
          /\ {a.arn : a \in Tried(rt)}
               = {Format(rt, g) : g \in Choices(refs)}
          /\ \A a \in Tried(rt) :
               LET joins == {e \in Attachments(ws) :
                               {e.src, e.tgt} = {call.e.id, a.arn}}
               IN  /\ Cardinality(joins) <= 1
                   /\ (\A x \in ws : x.kind = "Edge" \/ x.id # a.arn)
                        => joins = {}

\* A bucket with two ambiguous captures of two values each was iterated:
\* four reference ARNs were tried, two of them name an object, and an edge
\* joins the bucket and each of the two.
C14_Witness ==
    /\ call.to = "associatives"
    /\ call.e.id = BX
    /\ Ambiguous(Captures(call.e, TObject)) = {"Name", "Key"}
    /\ Cardinality(Tried(TObject)) = 4
    /\ {Associative(O1, BX), Associative(O2, BX)} \subseteq ws

\* The scalar values of the property tree whose immediate key is k.
RECURSIVE Under(_, _, _)
Under(item, key, k) ==
    CASE item.t \in {"list", "dict"} ->
           UNION {Under(item.of[i][2],
                        IF item.t = "dict" THEN item.of[i][1] ELSE "None", k) :
                    i \in DOMAIN item.of}
      [] item.t = "scalar" /\ key = k /\ item.v # "" -> {item.v}
      [] OTHER -> {}

\* The values of capture k for resource r: the one captured from the
\* identity of r when there is one, else those of the property tree.
ValuesOf(r, k) ==
    IF k \in DOMAIN GroupDict(r.label, r.id)
    THEN {GroupDict(r.label, r.id)[k]}
    ELSE Under(PropertyTree(r), "None", k)

---------------------------------------------------------------------------
(* IngestionManager.save on the graphs a run of IAM can have made.         *)

\* What the graph can hold: two users whose Attributes are of different
\* classes, a group, their Generics, and what the resolution of actions adds.
SaveNodes ==
    {Resource(TUser, U1, "u1", [Attributes |-> Scalar("x")]),
     Resource(TUser, U2, "u2",
              [Attributes |-> DictOf(<< <<"k", Scalar("v")>> >>),
               GroupList |-> <<"g2">>]),
     Resource(TGroup, G1, "g1", NoProps),
     Generic(TUser), Generic(TGroup)}

SaveEdges(actions) ==
    {Transitive(U1, G1)}
    \cup (IF actions
          THEN {Action("iam:GetGroup", U1, G1), Action("iam:GetGroup", U2, G1),
                Action("iam:GetUser", XUser, U1),
                Action("kms:Decrypt", U1, CatchAll.id)}
          ELSE {})

\* The graphs: a Resource comes with the Generic of its type, an edge with
\* its ends, and CatchAll when actions were resolved.
SaveGraphs(actions) ==
    {nodes \cup edges \cup extra :
       nodes \in {n \in SUBSET SaveNodes :
                   \A r \in n : r.kind = "Resource" => Generic(r.label) \in n},
       edges \in SUBSET SaveEdges(actions),
       extra \in {IF actions THEN {CatchAll, External(TUser, XUser)} ELSE {}}}

InitSave ==
    \E actions \in BOOLEAN :
      \E g \in {x \in SaveGraphs(actions) :
                  \A e \in x : e.kind = "Edge" =>
                     \A i \in {e.src, e.tgt} : \E n \in x : n.kind # "Edge" /\ n.id = i} :
        /\ cfg = Config(<<"IAM">>, TRUE, ~actions, {},
                        {t \in SeqToSet(IamTypes) : Generic(t) \notin g}, {}, {})
        /\ pc = "save"
        /\ svc = 2
        /\ step = Len(Steps("IAM", TRUE))
        /\ types = SelectSeq(IamTypes, LAMBDA t : Generic(t) \in g)
        /\ ws = {}
        /\ live = {"IAM"}
        /\ graph = g
        /\ events = EmptyBag
        /\ zip = "None"
        /\ disk = NoDisk
        /\ trace = ServicePhases(<<"IAM">>) \o <<"transitives">>
                   \o (IF actions THEN <<"actions">> ELSE <<>>)
        /\ faults = {}
        /\ error = "None"
        /\ calls = 0
        /\ call = NoCall

NextSave == DoSave

SpecSave == InitSave /\ [][NextSave]_vars

\* The groups of a graph: the labels under which its elements are filed.
Groups(g) == {SaveLabel(e) : e \in g}

\* The property keys of the members of a group.
GroupKeys(g, l) == UNION {PropertyKeys(e) : e \in Get(g, l)}

\* The columns of a header row that are of property f.
ColumnsOf(header, f) ==
    {i \in DOMAIN header :
       \E t \in {"string", "float", "set"} : header[i] = f \o ":" \o t}

\* A key whose values are of more than one class in a group.
Conflicting(g, l, f) ==
    \E a \in Get(g, l), b \in Get(g, l) :
       /\ f \in PropertyKeys(a) \cap PropertyKeys(b)
       /\ ClassName(a, f) # ClassName(b, f)

\* C17: save writes one table file per group of elements filed under the
\* same label, none for any other label; in each file the header row has one
\* column per property key of the group's members (a key met with several
\* classes once, as string) between the fixed columns, 2 for nodes (:ID,
\* :LABEL) and 3 for edges (:START_ID, :END_ID, :TYPE), and every data row
\* has as many columns as the header row.
C17_TablesAndHeaders ==
    pc = "done" =>
      /\ DOMAIN disk.tables = Groups(graph)
      /\ \A l \in DOMAIN disk.tables : \A m \in DOMAIN disk.tables :
           disk.tables[l].name = disk.tables[m].name => l = m
      /\ \A l \in DOMAIN disk.tables :
           LET t == disk.tables[l] IN
           /\ t.nodes = (\A e \in Get(graph, l) : e.kind # "Edge")
           /\ Len(t.header) = Cardinality(GroupKeys(graph, l))
                               + (IF t.nodes THEN 2 ELSE 3)
           /\ t.header[1] = (IF t.nodes THEN ":ID" ELSE ":START_ID")
           /\ t.header[Len(t.header)] = (IF t.nodes THEN ":LABEL" ELSE ":TYPE")
           /\ ~t.nodes => t.header[Len(t.header) - 1] = ":END_ID"
           /\ \A f \in GroupKeys(graph, l) :
                /\ Cardinality(ColumnsOf(t.header, f)) = 1
                /\ Conflicting(graph, l, f) =>
                     \E i \in DOMAIN t.header : t.header[i] = f \o ":string"
           /\ \A r \in DOMAIN t.data : Len(r) = Len(t.header)

\* A graph of two node types and one edge type was saved in three files;
\* the users' file has one column for the key that is a str for one user
\* and a dict for the other.
C17_Witness ==
    /\ pc = "done"
    /\ Groups(graph) = {TUser, TGroup, "TRANSITIVE"}
    /\ Cardinality(DOMAIN disk.tables) = 3
    /\ Conflicting(graph, TUser, "Attributes")
    /\ Len(disk.tables[TUser].header) = 6

\* The number of data rows of a table file.
Rows(t) == BagCardinality(t.data)

RECURSIVE Sum(_, _)
Sum(f, S) ==
    IF S = {} THEN 0
    ELSE LET x == CHOOSE y \in S : TRUE IN f[x] + Sum(f, S \ {x})

\* C19: every element of the graph has its row in the table file of the
\* label it is filed under, which has as many data rows as the group has
\* members, and the files have as many data rows in all as the graph has
\* elements.
C19_OneRowPerMember ==
    pc = "done" =>
      /\ \A e \in graph :
           /\ SaveLabel(e) \in DOMAIN disk.tables
           /\ \E r \in DOMAIN disk.tables[SaveLabel(e)].data :
                /\ r[1] = (IF e.kind = "Edge" THEN e.src ELSE e.id)
                /\ e.kind = "Edge" => r[Len(r) - 1] = e.tgt /\ r[Len(r)] = e.label
                /\ \E i \in DOMAIN r : r[i] = e.name
      /\ \A l \in DOMAIN disk.tables :
           Rows(disk.tables[l]) = Cardinality({e \in graph : SaveLabel(e) = l})
      /\ Sum([l \in DOMAIN disk.tables |-> Rows(disk.tables[l])],
             DOMAIN disk.tables) = Cardinality(graph)

\* A graph with Resources, Generics, an External node, CatchAll and edges of
\* two types, two of them with the same ends, was saved.
C19_Witness ==
    /\ pc = "done"
    /\ {Action("iam:GetGroup", U1, G1), Transitive(U1, G1),
        Action("iam:GetUser", XUser, U1), CatchAll, Generic(TGroup)}
         \subseteq graph
    /\ Rows(disk.tables["ACTION"]) >= 2
    /\ Rows(disk.tables[TUser]) >= 3

---------------------------------------------------------------------------
(* load_resources.get_resource_type_model on the resource schemas of a     *)
(* service.                                                                *)

\* A resource schema: the resource definitions by name; hasMany holds, in
\* order, the collections [of, name, type, op] (of the service when `of` is
\* its name), has the references [of, name, type], and shape and load give
\* the shape and the load operation of a definition ("" for none).
Schema(service, defs, hasMany, has, shape, load) ==
    [service |-> service, defs |-> defs, hasMany |-> hasMany, has |-> has,
     shape |-> shape, load |-> load]

\* The names that hold "Version".
VersionNames == {"ObjectVersion"}

\* model[key]["hasMany"], in order.
HasManyOf(sch, key) == SelectSeq(sch.hasMany, LAMBDA h : h.of = key)

\* attrs[k]: the names under which a definition is referenced.
Attrs(sch, k) == {h.name : h \in {x \in SeqToSet(sch.has) : x.type = k}}

\* operations[k]: the operation that enumerates k (of the last collection
\* of that type), "" for none.
Operations(sch, k) ==
    LET at == {i \in DOMAIN sch.hasMany : sch.hasMany[i].type = k}
    IN  IF at = {} THEN ""
        ELSE sch.hasMany[CHOOSE i \in at : \A j \in at : j <= i].op

\* actions[op]: the definitions that op enumerates or loads.
Enumerators(sch, op) ==
    {k \in sch.defs \cup {sch.service} :
       op # "" /\ (Operations(sch, k) = op \/ sch.load[k] = op)}

\* get_collections: the collections reached from the service, one per
\* operation.
RECURSIVE Reached(_, _, _)
Reached(sch, hs, collections) ==
    IF hs = <<>> THEN collections
    ELSE LET t == Head(hs).type IN
         IF Enumerators(sch, Operations(sch, t)) \cap collections # {}
         THEN Reached(sch, Tail(hs), collections)
         ELSE Reached(sch, Tail(hs),
                      Reached(sch, HasManyOf(sch, t), collections \cup {t}))

\* get_collections(): what is reached, less the definitions named after a
\* collection and a reference to them, and the versions.
GetCollections(sch) ==
    LET collections == Reached(sch, HasManyOf(sch, sch.service), {})
    IN  {c \in collections :
           /\ ~\E v \in collections : \E a \in Attrs(sch, c) : v \o a = c
           /\ c \notin VersionNames}

\* remap[k]: the first label of the catalog that is the name, the shape or
\* a reference name of k under the service, "" for none.
Remap(sch, catalog, k) ==
    LET fits == {i \in DOMAIN catalog :
                   \E y \in ({k, sch.shape[k]} \cup Attrs(sch, k)) \ {""} :
                      catalog[i] = "AWS::S3::" \o y}
    IN  IF fits = {} THEN ""
        ELSE catalog[CHOOSE i \in fits : \A j \in fits : i <= j]

\* The collections without a label.
Undefined(sch, catalog) ==
    {k \in GetCollections(sch) : Remap(sch, catalog, k) = ""}

\* The collections left to enumerate.
Labelled(sch, catalog) == GetCollections(sch) \ Undefined(sch, catalog)

\* properties: the definitions that are loaded, are no subset of a
\* collection, are referenced by a collection and give no known resource;
\* and the collections without a label.
Properties(sch, catalog) ==
    LET collections == GetCollections(sch)
        referenced  == {h.type : h \in {x \in SeqToSet(sch.has)
                                            \cup SeqToSet(sch.hasMany) :
                                          x.of \in collections}}
    IN  {p \in sch.defs :
           /\ sch.load[p] # ""
           /\ Enumerators(sch, sch.load[p]) \cap collections = {}
           /\ p \in referenced
           /\ \A k \in collections : Remap(sch, catalog, k) # "AWS::S3::" \o p
           /\ p \notin VersionNames}
        \cup Undefined(sch, catalog)

\* meta[k]["method"]: the first collection of the service or of a labelled
\* collection that yields k, as [of, name] (of = "" for the service);
\* "IndexError" when there is none.
Method(sch, catalog, k) ==
    LET root == SelectSeq(HasManyOf(sch, sch.service), LAMBDA h : h.type = k)
        sub  == SelectSeq(sch.hasMany,
                          LAMBDA h : h.type = k
                                     /\ h.of \in Labelled(sch, catalog))
    IN  IF root # <<>> THEN [of |-> "", name |-> root[1].name]
        ELSE IF sub # <<>> THEN [of |-> sub[1].of, name |-> sub[1].name]
        ELSE [of |-> "", name |-> "IndexError"]

\* The tree as run_ingestor reads it.  The mapping of a root holds the
\* collections whose method is of a collection with the root's label, each
\* with an empty mapping of its own.
Plan(sch, catalog) ==
    SeqOf({TreeNode(Method(sch, catalog, m).name, Remap(sch, catalog, m),
                    SeqOf({TreeNode(Method(sch, catalog, y).name,
                                    Remap(sch, catalog, y), <<>>) :
                             y \in {z \in Labelled(sch, catalog) :
                                      /\ Method(sch, catalog, z).of # ""
                                      /\ Remap(sch, catalog,
                                               Method(sch, catalog, z).of)
                                           = Remap(sch, catalog, m)}})) :
             m \in {z \in Labelled(sch, catalog) :
                      Method(sch, catalog, z).of = ""}})

\* get_resource_type_model(collection): the tree, the properties, and what
\* it raises.
GetResourceTypeModel(sch, catalog) ==
    IF \E k \in Labelled(sch, catalog) :
          Method(sch, catalog, k).name = "IndexError"
    THEN [model |-> <<>>, properties |-> {}, exc |-> "IndexError"]
    ELSE [model |-> Plan(sch, catalog),
          properties |-> Properties(sch, catalog), exc |-> "None"]

\* The schemas: three definitions, each yielded by a collection of the
\* service or of another definition; the versions of the objects or not; the
\* reference of an object summary to its object or not.
SchemaParents ==
    {f \in [{"Bucket", "ObjectSummary", "MultipartUpload"} ->
              {"s3", "Bucket", "ObjectSummary", "MultipartUpload"}] :
       \A t \in DOMAIN f : f[t] # t}

Schemas ==
    {Schema("s3",
            {"Bucket", "ObjectSummary", "MultipartUpload", "ObjectVersion",
             "Object"},
            <<[of |-> f["Bucket"], name |-> "buckets", type |-> "Bucket",
               op |-> "ListBuckets"],
              [of |-> f["ObjectSummary"], name |-> "objects",
               type |-> "ObjectSummary", op |-> "ListObjects"],
              [of |-> f["MultipartUpload"], name |-> "multipart_uploads",
               type |-> "MultipartUpload", op |-> "ListMultipartUploads"]>>
            \o (IF versions
                THEN <<[of |-> "Bucket", name |-> "object_versions",
                        type |-> "ObjectVersion", op |-> "ListObjectVersions"]>>
                ELSE <<>>),
            IF refs
            THEN <<[of |-> "ObjectSummary", name |-> "Object",
                    type |-> "Object"]>>
            ELSE <<>>,
            [k \in {"s3", "Bucket", "ObjectSummary", "MultipartUpload",
                    "ObjectVersion", "Object"} |->
               IF k = "ObjectSummary" THEN "Object" ELSE ""],
            [k \in {"s3", "Bucket", "ObjectSummary", "MultipartUpload",
                    "ObjectVersion", "Object"} |->
               IF k = "Object" THEN "HeadObject" ELSE ""]) :
       f \in SchemaParents, versions \in BOOLEAN, refs \in BOOLEAN}

\* The catalogs: RESOURCES with some of the labels, in order.
Catalogs ==
    {SelectSeq(<<TBucket, "AWS::S3::MultipartUpload", TObject>>,
               LAMBDA l : l \in c) :
       c \in SUBSET {TBucket, "AWS::S3::MultipartUpload", TObject}}

NoModel == [model |-> <<>>, properties |-> {}, exc |-> "None"]

InitModel ==
    \E sch \in Schemas, catalog \in Catalogs :
      /\ cfg = Config(<<"S3">>, TRUE, TRUE, {}, {}, {}, {})
      /\ pc = "model"
      /\ svc = 1
      /\ step = 2
      /\ types = SelectSeq(S3Types, LAMBDA t : \E i \in DOMAIN catalog : catalog[i] = t)
      /\ ws = {Generic(types[i]) : i \in DOMAIN types}
      /\ live = {"S3"}
      /\ graph = {}
      /\ events = SetToBag({Ev("ingestor", "info", "Added", Key(e)) : e \in ws})
      /\ zip = "None"
      /\ disk = NoDisk
      /\ trace = <<>>
      /\ faults = {}
      /\ error = "None"
      /\ calls = 0
      /\ call = [to |-> "get_resource_type_model", schema |-> sch,
                 catalog |-> catalog, out |-> NoModel]

\* load_resources: (model, _) = get_resource_type_model(collection)
DoGetResourceTypeModel ==
    /\ pc = "model"
    /\ LET out == GetResourceTypeModel(call.schema, call.catalog) IN
       /\ call' = [call EXCEPT !.out = out]
       /\ error' = out.exc
       /\ pc' = IF out.exc = "None" THEN "done" ELSE "aborted"
    /\ UNCHANGED <<cfg, svc, step, types, ws, live, graph, events, zip, disk,
                   trace, faults, calls>>

NextModel == DoGetResourceTypeModel

SpecModel == InitModel /\ [][NextModel]_vars

\* The nodes of a tree, at any depth, and those of them that are under the
\* node of a label.
RECURSIVE Nodes(_)
Nodes(model) ==
    SeqToSet(model) \cup UNION {Nodes(model[i].children) : i \in DOMAIN model}

NodesUnder(model, label) ==
    UNION {SeqToSet(n.children) : n \in {x \in Nodes(model) : x.label = label}}

\* The collection that yields k, "" when the service does.
ParentOf(sch, k) ==
    LET hs == SelectSeq(sch.hasMany, LAMBDA h : h.type = k) IN hs[1].of

\* C22, as stated: the tree that get_resource_type_model returns has a node
\* for every selected collection with a catalog label, at the depth of the
\* collection: among the roots when the service yields it, and under the
\* node of the collection that yields it otherwise.
C22_EveryLabelledCollectionInTree ==
    pc = "done" /\ call.to = "get_resource_type_model" =>
      \A k \in Labelled(call.schema, call.catalog) :
        LET label  == Remap(call.schema, call.catalog, k)
            parent == ParentOf(call.schema, k)
        IN  IF parent = call.schema.service
            THEN \E n \in SeqToSet(call.out.model) : n.label = label
            ELSE \E n \in NodesUnder(call.out.model,
                                      Remap(call.schema, call.catalog, parent)) :
                    n.label = label

\* C23, as stated: get_resource_type_model raises nothing, and a selected
\* collection without a catalog label is among the properties and has no
\* node in the tree.
C23_UnlabelledBecomesProperty ==
    pc \in {"done", "aborted"} /\ call.to = "get_resource_type_model" =>
      /\ error = "None"
      /\ \A k \in Undefined(call.schema, call.catalog) :
           /\ k \in call.out.properties
           /\ \A n \in Nodes(call.out.model) :
                \A h \in SeqToSet(call.schema.hasMany) :
                   h.type = k => n.attr # h.name

---------------------------------------------------------------------------
(* run_ingestor on one batch of raw records, a record at a time.           *)

\* The number of records of a batch.
MaxRecords == 3

\* The records a collection of the label can yield: some have what the Arn
\* and the Name are derived from; one lacks a field of the ARN template; one
\* has an Arn that the pattern of its type does not match, and no
\* identifier to take the Name from; one (a user) has an Arn that the pattern
\* matches without capturing a Name or an id.
RecordForms(label) ==
    CASE label = TSubnet ->
           {Cm(TRUE, [SubnetId |-> "subnet-1", VpcId |-> "vpc-1"],
               << <<"Id", "subnet-1">> >>),
            Cm(TRUE, [SubnetId |-> "subnet-2", VpcId |-> "vpc-1"],
               << <<"Id", "subnet-2">> >>),
            Cm(TRUE, [VpcId |-> "vpc-1"], << <<"Id", "subnet-3">> >>),
            Cm(TRUE, [Arn |-> BX, VpcId |-> "vpc-1"], <<>>)}
      [] label = TObject ->
           {Cm(TRUE, [Key |-> "o1", Size |-> "1"],
               << <<"Bucket_name", "b1">>, <<"Key", "o1">> >>),
            Cm(TRUE, [Key |-> "o2", Size |-> "2"],
               << <<"Bucket_name", "b1">>, <<"Key", "o2">> >>),
            Cm(TRUE, [Size |-> "3"], << <<"Bucket_name", "b1">> >>),
            Cm(TRUE, [Arn |-> BX, Size |-> "4"], << <<"Bucket_name", "b1">> >>)}
      [] label = TUser ->
           {Cm(TRUE, [Arn |-> U1, Name |-> "u1"], <<>>),
            Cm(TRUE, [Arn |-> U2], <<>>),
            Cm(TRUE, [Arn |-> BX], <<>>)}

RECURSIVE Batches(_, _)
Batches(forms, n) ==
    IF n = 0 THEN {<<>>}
    ELSE Batches(forms, n - 1)
         \cup {Append(b, f) : b \in Batches(forms, n - 1), f \in forms}

\* The service of a label, and the meta.data of the parent of its records.
ServiceOf(label) ==
    CASE label = TSubnet -> "EC2" [] label = TObject -> "S3" [] OTHER -> "IAM"

ParentData(label) ==
    IF label = TObject THEN [Name |-> "b1", CreationDate |-> "2020"] ELSE <<>>

InitRecords ==
    \E label \in {TSubnet, TObject, TUser} :
      \E batch \in Batches(RecordForms(label), MaxRecords) \ {<<>>} :
        /\ cfg = Config(<<ServiceOf(label)>>, TRUE, TRUE, {}, {}, {}, {})
        /\ pc = "records"
        /\ svc = 1
        /\ step = 1
        /\ types = DeclaredTypes(ServiceOf(label))
        /\ ws = {Generic(t) : t \in SeqToSet(DeclaredTypes(ServiceOf(label)))}
        /\ live = {ServiceOf(label)}
        /\ graph = {}
        /\ events = SetToBag({Ev("ingestor", "info", "Added", Key(e)) : e \in ws})
        /\ zip = "None"
        /\ disk = NoDisk
        /\ trace = <<>>
        /\ faults = {}
        /\ error = "None"
        /\ calls = 0
        /\ call = [to |-> "records", label |-> label, batch |-> batch,
                   admitted |-> <<>>]

\* The body of `for cm in SessionClientWrapper(operation())` for the next
\* record of the batch.
IngestRecord ==
    /\ pc = "records"
    /\ calls < Len(call.batch)
    /\ LET r == Ingest(Here, call.label, call.batch[calls + 1],
                       ParentData(call.label))
       IN  /\ ws' = r.rs.c
           /\ events' = r.rs.ev
           /\ error' = r.rs.exc
           /\ call' = [call EXCEPT !.admitted = @ \o r.cms]
           /\ pc' = IF r.rs.exc # "None" THEN "aborted"
                    ELSE IF calls + 1 = Len(call.batch) THEN "done"
                    ELSE "records"
    /\ calls' = calls + 1
    /\ UNCHANGED <<cfg, svc, step, types, live, graph, zip, disk, trace, faults>>

NextRecords == IngestRecord

SpecRecords == InitRecords /\ [][NextRecords]_vars

\* Deriving the Arn or the Name of the record fails: a field of the template
\* is not given, or there is no name to take (the pattern does not match the
\* Arn, or captures no name).
Underivable(label, cm) ==
    /\ cm.conforms
    /\ ~(Has(cm.data, "Arn") /\ Has(cm.data, "Name"))
    /\ LET arn == DeriveArn(label, cm, ParentData(label)) IN
       arn = "KeyError" \/ DeriveName(label, cm, arn) = "None"

Warning(label) == Ev("ingestor", "warn", "Skipping", <<label, "", "", "">>)

\* The resources that the records before position n of the batch give.
Derived(n) ==
    {Resource(call.label, DeriveArn(call.label, cm, ParentData(call.label)),
              DeriveName(call.label, cm,
                         DeriveArn(call.label, cm, ParentData(call.label))),
              Without(cm.data, {"Arn", "Name"})) :
       cm \in {call.batch[i] : i \in {j \in 1..n :
                  ~Underivable(call.label, call.batch[j])}}}

\* C21: the iteration over a record whose Arn or Name cannot be derived
\* adds nothing to the collection, admits no parent handle, logs one
\* warning, raises nothing and goes on to the next record; whatever the
\* place of such records in the batch, the collection holds at any point
\* the resources of all the other records iterated so far, and those records
\* are the handles admitted.
C21_DerivationFailureSkipsOneRecord ==
    /\ [][(pc = "records" /\ Underivable(call.label, call.batch[calls + 1]))
           => (/\ ws' = ws
               /\ call'.admitted = call.admitted
               /\ CopiesIn(Warning(call.label), events')
                    = CopiesIn(Warning(call.label), events) + 1
               /\ error' = "None"
               /\ calls' = calls + 1
               /\ pc' \in {"records", "done"})]_vars
    /\ [](pc \in {"records", "done"} =>
            /\ error = "None"
            /\ Get(ws, "Resource") = Derived(calls)
            /\ SeqToSet(call.admitted)
                 = {call.batch[i] : i \in {j \in 1..calls :
                      ~Underivable(call.label, call.batch[j])}})

\* A batch ended in which a record that lacks a template field came first, a
\* record whose Arn the pattern does not match second, and a record that
\* gave a resource last.
C21_Witness ==
    /\ pc = "done"
    /\ call.label = TSubnet
    /\ Len(call.batch) = 3
    /\ DeriveArn(TSubnet, call.batch[1], <<>>) = "KeyError"
    /\ Has(call.batch[2].data, "Arn")
    /\ Underivable(TSubnet, call.batch[2])
    /\ Get(ws, "Resource") # {}
    /\ Len(call.admitted) = 1
    /\ CopiesIn(Warning(TSubnet), events) = 2

---------------------------------------------------------------------------
(* run_ingestor on the objects of the buckets admitted, a page at a time.  *)

\* The buckets admitted, as the parents of the objects' collections.
BucketHandle(name) ==
    Cm(TRUE, [Name |-> name, CreationDate |-> "2020"], << <<"Name", name>> >>)

ObjectsNode == TreeNode("objects", TObject, <<>>)

InitEnumerate ==
    \E parents \in {b \in Batches({"b1", "b2", "b3"}, 3) \ {<<>>} :
                       \A i \in DOMAIN b : \A j \in DOMAIN b :
                          b[i] = b[j] => i = j} :
      /\ cfg = Config(<<"S3">>, TRUE, TRUE, {}, {}, {}, {})
      /\ pc = "enumerate"
      /\ svc = 1
      /\ step = 1
      /\ types = S3Types
      /\ ws = {Generic(TBucket), Generic(TObject)}
              \cup {Resource(TBucket, "arn:aws:s3:::" \o parents[i], parents[i],
                             [CreationDate |-> "2020"]) : i \in DOMAIN parents}
      /\ live = {"S3"}
      /\ graph = {}
      /\ events = SetToBag({Ev("ingestor", "info", "Added", Key(e)) : e \in ws})
      /\ zip = "None"
      /\ disk = NoDisk
      /\ trace = <<>>
      /\ faults = {}
      /\ error = "None"
      /\ calls = 0
      /\ call = [to |-> "objects", parents |-> parents]

\* The next page of the objects of the parent at hand ends with outcome o:
\* its records are ingested, or the wrapper ends the iteration over this
\* parent, or the error is raised.
EnumeratePage ==
    /\ pc = "enumerate"
    /\ LET name  == call.parents[calls + 1]
           pages == Collection("objects", name)
       IN  \E o \in {x \in Outcomes : x = "ok" \/ Cardinality(faults) < MaxFailures} :
             LET r == EnumPages([rs |-> Here, cms |-> <<>>], ObjectsNode,
                                BucketHandle(name), SubSeq(pages, 1, step), step,
                                [x \in {<<"objects", name, step>>} |-> o])
                 over == WrapperIter(o) = "stop" \/ step = Len(pages)
             IN  /\ ws' = r.rs.c
                 /\ events' = r.rs.ev
                 /\ faults' = faults \cup r.rs.faults
                 /\ error' = r.rs.exc
                 /\ step' = IF over THEN 1 ELSE step + 1
                 /\ calls' = IF over THEN calls + 1 ELSE calls
                 /\ pc' = IF r.rs.exc # "None" THEN "aborted"
                          ELSE IF over /\ calls + 1 = Len(call.parents) THEN "done"
                          ELSE "enumerate"
    /\ UNCHANGED <<cfg, svc, types, live, graph, zip, disk, trace, call>>

NextEnumerate == EnumeratePage

SpecEnumerate == InitEnumerate /\ [][NextEnumerate]_vars

\* The objects that the pages from..to of a parent's collection hold.
ObjectsOn(name, from, to) ==
    {Resource(TObject, "arn:aws:s3:::" \o name \o "/" \o cm.data["Key"],
              cm.data["Key"], cm.data) :
       cm \in UNION {SeqToSet(Collection("objects", name)[i]) :
                       i \in (from..to) \cap DOMAIN Collection("objects", name)}}

\* The call for the objects of a parent was denied.
Denied(name) ==
    \E f \in faults : f.call = "objects" /\ f.item = name /\ f.code \in codes

\* C26, as stated: when the enumeration of the objects of a parent is
\* denied, at whatever page, the collection holds no object of that parent.
C26_DeniedParentGivesNothing ==
    \A i \in DOMAIN call.parents :
       Denied(call.parents[i]) =>
         ObjectsOn(call.parents[i], 1, 2) \cap ws = {}

\* C26: a denial at a page of the enumeration for one parent adds nothing
\* of that page or of the pages after it, logs a warning, raises nothing
\* and passes to the next parent; the records of the pages before it stay
\* in the collection.  So a parent denied at its first page has given
\* nothing, and a parent denied at a later page has given the objects of
\* the pages before.
C26_DenialEndsOneParent ==
    /\ [][(pc = "enumerate" /\ faults' # faults
            /\ \E f \in faults' \ faults : f.code \in codes)
           => (/\ ws' = ws
               /\ error' = "None"
               /\ pc' \in {"enumerate", "done"}
               /\ calls' = calls + 1
               /\ step' = 1
               /\ BagCardinality(events') = BagCardinality(events) + 1
               /\ ObjectsOn(call.parents[calls + 1], 1, step - 1) \subseteq ws'
               /\ ObjectsOn(call.parents[calls + 1], step, 2) \cap ws' = {})]_vars
    /\ [](pc = "done" =>
            \A i \in DOMAIN call.parents :
               ~Denied(call.parents[i]) =>
                  ObjectsOn(call.parents[i], 1, 2) \subseteq ws)

\* The objects of the first parent were denied at the second page and those
\* of the next parent were all enumerated: the collection holds the object
\* of the first page of the one and both objects of the other.
C26_Witness ==
    /\ pc = "done"
    /\ call.to = "objects"
    /\ call.parents = <<"b1", "b2">>
    /\ Denied("b1")
    /\ ObjectsOn("b1", 1, 1) \subseteq ws
    /\ ObjectsOn("b1", 2, 2) \cap ws = {}
    /\ ObjectsOn("b2", 1, 2) \subseteq ws

---------------------------------------------------------------------------
(* load_transitives on the graphs a run can have merged.                   *)

\* The lists of at most MaxRefs references drawn from S.
RefSeqs(S) == UNION {[1..n -> S] : n \in 0..MaxRefs}

WithProp(k, v) == [x \in {k} |-> v]

\* The resource whose references are resolved.
TransitiveSources ==
    {Resource(l[1], l[2], l[3],
              WithProp("AttachedManagedPolicies",
                       [i \in DOMAIN s |-> [PolicyArn |-> s[i]]])) :
       l \in {<<TUser, U1, "u1">>, <<TGroup, G1, "g1">>, <<TRole, R1, "r1">>},
       s \in RefSeqs({P1, P2})}
    \cup {Resource(TUser, U1, "u1", WithProp("GroupList", s)) :
            s \in RefSeqs({"g1", "g2"})}
    \cup {Resource(TUser, U1, "u1",
                   [GroupList |-> <<"g1">>,
                    AttachedManagedPolicies |-> <<[PolicyArn |-> P1]>>])}
    \cup {Resource(TProfile, IP1, "ip1",
                   WithProp("Roles", [i \in DOMAIN s |-> [Arn |-> s[i]]])) :
            s \in RefSeqs({R1, R2})}
    \cup {Resource(TInstance, I1, "i-1",
                   WithProp("IamInstanceProfile", [Arn |-> a])) :
            a \in {IP1, IP2}}
    \cup {Resource(TFunction, F1, "f1", WithProp("Role", r)) : r \in {R1, R2}}

\* The entities that may be known beside it.
TransitiveTargets ==
    {Resource(TPolicy, P1, "p1", NoProps), Resource(TPolicy, P2, "p2", NoProps),
     Resource(TGroup, G1, "g1", NoProps), Resource(TGroup, G2, "g2", NoProps),
     Resource(TRole, R1, "r1", NoProps), Resource(TRole, R2, "r2", NoProps),
     Resource(TProfile, IP1, "ip1", NoProps),
     Resource(TProfile, IP2, "ip2", NoProps)}

\* The state of a run of these services, without filters, whose merges made
\* graph g beside the Generic of every type.
Merged3 == <<"IAM", "EC2", "Lambda">>

Generics == {Generic(t) : t \in SeqToSet(IamTypes \o Ec2Types \o LambdaTypes)}

AfterMerges(g, position, history) ==
    /\ cfg = Config(Merged3, TRUE, FALSE, {}, {}, {}, {})
    /\ pc = position
    /\ svc = Len(Merged3) + 1
    /\ step = Len(Steps("Lambda", TRUE))
    /\ types = LambdaTypes
    /\ ws = {}
    /\ live = {"Lambda"}
    /\ graph = g \cup Generics
    /\ events = SetToBag({Ev("ingestor", "info", "Added", Key(e)) :
                            e \in g \cup Generics})
    /\ zip = "None"
    /\ disk = NoDisk
    /\ trace = history
    /\ faults = {}
    /\ error = "None"
    /\ calls = 0
    /\ call = NoCall

InitTransitive ==
    \E source \in TransitiveSources, known \in SUBSET TransitiveTargets :
        AfterMerges({source} \cup {t \in known : Key(t) # Key(source)},
                    "transitives", ServicePhases(Merged3))

NextTransitive == DoLoadTransitives

SpecTransitive == InitTransitive /\ [][NextTransitive]_vars

\* The mapped properties of a type: the property, the type of its targets
\* and what of a target a reference names.
Mappings(label) ==
    (IF label \in {TUser, TGroup, TRole}
     THEN {[key |-> "AttachedManagedPolicies", to |-> TPolicy, by |-> "Arn"]}
     ELSE {})
    \cup (IF label = TUser
          THEN {[key |-> "GroupList", to |-> TGroup, by |-> "Name"]} ELSE {})
    \cup (IF label = TInstance
          THEN {[key |-> "IamInstanceProfile", to |-> TProfile, by |-> "Arn"]}
          ELSE {})
    \cup (IF label = TProfile
          THEN {[key |-> "Roles", to |-> TRole, by |-> "Arn"]} ELSE {})
    \cup (IF label = TFunction
          THEN {[key |-> "Role", to |-> TRole, by |-> "Arn"]} ELSE {})

\* The references under property m.key of resource r.
References(r, m) ==
    LET v == r.props[m.key] IN
    CASE m.key = "AttachedManagedPolicies" ->
           {v[i]["PolicyArn"] : i \in DOMAIN v}
      [] m.key = "GroupList" -> {v[i] : i \in DOMAIN v}
      [] m.key = "IamInstanceProfile" -> {v["Arn"]}
      [] m.key = "Roles" -> {v[i]["Arn"] : i \in DOMAIN v}
      [] m.key = "Role" -> {v}

\* The known entities of g that reference ref of mapping m matches.
Resolved(g, m, ref) ==
    {t \in Get(Get(g, "Resource"), m.to) :
       IF m.by = "Name" THEN t.name = ref ELSE t.id = ref}

\* The mapped properties that resource r holds.
Held(r) == {m \in Mappings(r.label) : Has(r.props, m.key)}

Ran(position) == pc = position /\ pc' # position

\* C4, as stated: for each of the five mappings, after load_transitives the
\* property is absent from the source resource if and only if every
\* reference under it resolved to a known entity, and when a reference did
\* not resolve the property is present with its original value.
C4_CleanupIffAllResolved ==
    [][Ran("transitives") =>
         \A r \in Get(graph, "Resource") : \A m \in Held(r) :
           \E r2 \in graph' :
             /\ Key(r2) = Key(r)
             /\ ~Has(r2.props, m.key)
                  <=> \A ref \in References(r, m) : Resolved(graph, m, ref) # {}
             /\ (\E ref \in References(r, m) : Resolved(graph, m, ref) = {})
                  => /\ Has(r2.props, m.key)
                     /\ r2.props[m.key] = r.props[m.key]]_vars

\* C5: after load_transitives the Transitive edges of the graph are exactly
\* the edges S -> T for a source resource S and a known entity T of the
\* mapped type that a reference under a mapped property of S matches.
C5_EdgesAreResolvedReferences ==
    [][Ran("transitives") =>
         Get(graph', "TRANSITIVE") =
           UNION {{Transitive(r.id, t.id) :
                     t \in UNION {UNION {Resolved(graph, m, ref) :
                                           ref \in References(r, m)} :
                                    m \in Held(r)}} :
                  r \in Get(graph, "Resource")}]_vars

\* load_transitives ran on a graph with role R1, whose one reference named
\* policy P1, and P1: the edge R1 -> P1 is the only Transitive edge.
C5_Witness ==
    /\ pc = AfterTransitives(cfg)
    /\ \E r \in Get(graph, TRole) :
         r.id = R1 /\ r.kind = "Resource"
         /\ ~Has(r.props, "AttachedManagedPolicies")
    /\ Get(graph, "TRANSITIVE") = {Transitive(R1, P1)}

---------------------------------------------------------------------------
(* load_actions on the trust documents a role can have.                    *)

\* The statements of a trust document.
TrustStatements ==
    {[principal |-> p, action |-> a] :
       p \in {Root, OtherRoot, U1, XUser, R2},
       a \in {"sts:AssumeRole", "sts:AssumeRoleWithSAML", "sts:TagSession"}}

\* The IAM users and roles that may be known beside role R1.
TrustEntities ==
    {Resource(TUser, U1, "u1", NoProps), Resource(TUser, U2, "u2", NoProps),
     Resource(TRole, R2, "r2", NoProps)}

InitActions ==
    \E doc \in SUBSET TrustStatements, known \in SUBSET TrustEntities :
        /\ Cardinality(doc) <= MaxRefs
        /\ AfterMerges({Resource(TRole, R1, "r1", WithProp("Trusts", doc)),
                        Resource(TGroup, G1, "g1", NoProps)} \cup known,
                       "actions",
                       ServicePhases(Merged3) \o <<"transitives">>)

NextActions == DoLoadActions

SpecActions == InitActions /\ [][NextActions]_vars

\* The statements of the trust document of role r that name a
\* role-assumption action.
Assumptions(r) ==
    IF Has(r.props, "Trusts")
    THEN {s \in r.props["Trusts"] : StartsWithAssumeRole(s.action)}
    ELSE {}

\* The account-wide principal of the scanned account.
IsAccountWide(p) == p = "arn:aws:iam::" \o Account \o ":root"

\* The IAM users and roles of a graph.
Identities(g) == {e \in Get(g, "Resource") : e.label \in {TUser, TRole}}

\* C6: when the trust document of a role names the account-wide principal
\* of the scanned account for a role-assumption action, and the graph holds
\* n IAM users and roles, load_actions adds for the statement exactly n
\* Trusts edges, one from the role to each of them, and no Action edge.
C6_TrustExpansion ==
    [][Ran("actions") =>
         \A r \in Get(Get(graph, "Resource"), TRole) :
           \A s \in Assumptions(r) :
             IsAccountWide(s.principal) =>
               LET made == {e \in graph' : /\ e.label = "TRUSTS"
                                           /\ e.name = s.action
                                           /\ e.src = r.id
                                           /\ \E n \in Identities(graph) :
                                                n.id = e.tgt}
               IN  /\ made = {Trusts(s.action, r.id, n.id) :
                                n \in Identities(graph)}
                   /\ Cardinality(made) = Cardinality(Identities(graph))
                   /\ \A e \in graph' :
                        ~(/\ e.label = "ACTION" /\ e.name = s.action
                          /\ e.src = s.principal /\ e.tgt = r.id)]_vars

\* load_actions ran on a graph of three IAM users and roles, one of them a
\* role whose trust document names the account-wide principal: the graph
\* has three Trusts edges from it and no Action edge.
C6_Witness ==
    /\ pc = "save"
    /\ Cardinality(Identities(graph)) = 3
    /\ \E r \in Get(Get(graph, "Resource"), TRole) :
         /\ \E s \in Assumptions(r) : IsAccountWide(s.principal)
         /\ Cardinality({e \in graph : e.label = "TRUSTS" /\ e.src = r.id}) = 3
    /\ Get(graph, "ACTION") = {}

\* C7, as stated: for a role-assumption action of the trust document of
\* role R with a specific principal P, load_actions adds the Action edge
\* P -> R and a Trusts edge whose source is P and whose target is R.
C7_TrustsFromPrincipal ==
    [][Ran("actions") =>
         \A r \in Get(Get(graph, "Resource"), TRole) :
           \A s \in Assumptions(r) :
             ~IsAccountWide(s.principal) =>
               /\ Action(s.action, s.principal, r.id) \in graph'
               /\ Trusts(s.action, s.principal, r.id) \in graph']_vars

\* C7, amended: load_actions adds the Action edge P -> R and a Trusts edge
\* whose source is the role R and whose target is the principal P.
C7_TrustsFromRole ==
    [][Ran("actions") =>
         \A r \in Get(Get(graph, "Resource"), TRole) :
           \A s \in Assumptions(r) :
             ~IsAccountWide(s.principal) =>
               /\ Action(s.action, s.principal, r.id) \in graph'
               /\ Trusts(s.action, r.id, s.principal) \in graph'
               /\ \E n \in graph' : n.kind # "Edge" /\ n.id = s.principal]_vars

\* load_actions ran on a role whose trust document names a user of another
\* account: the graph has the Action edge and the Trusts edge of the pair.
C7_Witness ==
    /\ pc = "save"
    /\ Action("sts:AssumeRole", XUser, R1) \in graph
    /\ Trusts("sts:AssumeRole", R1, XUser) \in graph
    /\ \E r \in Get(Get(graph, "Resource"), TRole) :
         \E s \in Assumptions(r) : s.principal = XUser

=============================================================================
